---- MODULE Spec2Model ----
(***************************************************************************)
(* Scattering data fields (Gridded, Spectral, FullySpectral) of scatlib:   *)
(* grid bookkeeping, particle-type classification, regridding, in-place    *)
(* arithmetic, scattering-angle integration and normalisation.             *)
(*                                                                         *)
(* Numbers are exact rationals <<numerator, denominator>>; a data value is *)
(* a sequence of rationals: <<re>> for the real Scalar of a Gridded field, *)
(* <<re, im>> for the std::complex<Scalar> of the spectral formats.        *)
(* Shared pointers are ids into the object pools grids, shts and heap.     *)
(***************************************************************************)
EXTENDS Integers, Sequences, FiniteSets, TLC

VARIABLES
  grids,    \* grid objects (const eigen::Vector) by id
  shts,     \* SHT objects by id
  heap,     \* data tensors (DataTensor) by id; Free when unallocated
  fields,   \* the field objects of the program, by name
  op,       \* the last call: its name, receiver and arguments
  err,      \* how the last call ended
  ret,      \* the value the last call returned (a tensor or a type)
  pre,      \* the objects as they were when the last call began
  calls,    \* the number of calls made so far
  scattering_data,  \* the ScatteringData object of the program
  quadrature,       \* the GaussLegendreQuadrature object of the program
  loop              \* the loop over the slices of a field that is under way

vars == <<grids, shts, heap, fields, op, err, ret, pre, calls, scattering_data,
          quadrature, loop>>

\* no object of the class has been constructed
NoScatteringData == [format |-> "none"]
NoQuadrature == [pc |-> "none"]
NoLoop == [name |-> "none"]

(***************************************************************************)
(* Bounds of the model.                                                    *)
(***************************************************************************)
\* largest grid size handed to determine_type
MaxGridSize == 5
\* largest number of calls made on the constructed fields
MaxCalls == 1

(***************************************************************************)
(* Exact rational arithmetic.                                              *)
(***************************************************************************)
Abs(x) == IF x < 0 THEN -x ELSE x

RECURSIVE GCD(_, _)
GCD(a, b) == IF b = 0 THEN a ELSE GCD(b, a % b)

QNorm(n, d) ==
  LET s == IF d < 0 THEN -1 ELSE 1
      g == GCD(Abs(n), Abs(d))
  IN  IF n = 0 THEN <<0, 1>> ELSE <<(s * n) \div g, (s * d) \div g>>

Q(n) == <<n, 1>>
QAdd(a, b) == QNorm(a[1] * b[2] + b[1] * a[2], a[2] * b[2])
QSub(a, b) == QNorm(a[1] * b[2] - b[1] * a[2], a[2] * b[2])
QMul(a, b) == QNorm(a[1] * b[1], a[2] * b[2])
QDiv(a, b) == QNorm(a[1] * b[2], a[2] * b[1])
QZero == Q(0)

\* a data value: <<re>> or <<re, im>>
VZero(k) == [i \in 1..k |-> QZero]
VAdd(a, b) == [i \in 1..Len(a) |-> QAdd(a[i], b[i])]
VScale(c, a) == [i \in 1..Len(a) |-> QMul(c, a[i])]
VReal(a) == a[1]

(***************************************************************************)
(* ParticleType and ScatteringDataFieldBase.                               *)
(***************************************************************************)
ParticleType == {"Random", "AzimuthallyRandom", "General"}

\* mutant: the second test also looks at the scattering-azimuth grid
determine_type_lon_scat(n_lon_inc, n_lat_inc, n_lon_scat, n_lat_scat) ==
  IF n_lon_inc = 1 /\ n_lat_inc = 1 /\ n_lon_scat = 1 THEN "Random"
  ELSE IF n_lon_inc = 1 /\ n_lon_scat > 1 THEN "AzimuthallyRandom"
  ELSE "General"

\* mutant: the first test looks at the scattering-zenith grid
determine_type_lat_scat(n_lon_inc, n_lat_inc, n_lon_scat, n_lat_scat) ==
  IF n_lon_inc = 1 /\ n_lat_inc = 1 /\ n_lat_scat = 1 THEN "Random"
  ELSE IF n_lon_inc = 1 THEN "AzimuthallyRandom"
  ELSE "General"

determine_type(n_lon_inc, n_lat_inc, n_lon_scat, n_lat_scat) ==
  IF n_lon_inc = 1 /\ n_lat_inc = 1 /\ n_lon_scat = 1 THEN "Random"
  ELSE IF n_lon_inc = 1 THEN "AzimuthallyRandom"
  ELSE "General"

\* mutant: the type is computed from the sizes in the wrong order
ScatteringDataFieldBase_swapped(n_freqs, n_temps, n_lon_inc, n_lat_inc, n_lon_scat, n_lat_scat) ==
  [n_freqs_ |-> n_freqs, n_temps_ |-> n_temps,
   n_lon_inc_ |-> n_lon_inc, n_lat_inc_ |-> n_lat_inc,
   n_lon_scat_ |-> n_lon_scat, n_lat_scat_ |-> n_lat_scat,
   type_ |-> determine_type(n_lat_inc, n_lon_inc, n_lon_scat, n_lat_scat)]

ScatteringDataFieldBase(n_freqs, n_temps, n_lon_inc, n_lat_inc, n_lon_scat, n_lat_scat) ==
  [n_freqs_ |-> n_freqs, n_temps_ |-> n_temps,
   n_lon_inc_ |-> n_lon_inc, n_lat_inc_ |-> n_lat_inc,
   n_lon_scat_ |-> n_lon_scat, n_lat_scat_ |-> n_lat_scat,
   type_ |-> determine_type(n_lon_inc, n_lat_inc, n_lon_scat, n_lat_scat)]

(***************************************************************************)
(* Dense tensors: dims is the sequence of axis lengths, val maps each      *)
(* 0-based index tuple to a value.  Axis a of the code is position a + 1.  *)
(***************************************************************************)
Ax(dims, k) == 0..(dims[k] - 1)

Indices(dims) ==
  CASE Len(dims) = 0 -> {<<>>}
    [] Len(dims) = 3 -> Ax(dims, 1) \X Ax(dims, 2) \X Ax(dims, 3)
    [] Len(dims) = 4 -> Ax(dims, 1) \X Ax(dims, 2) \X Ax(dims, 3) \X Ax(dims, 4)
    [] Len(dims) = 5 ->
         Ax(dims, 1) \X Ax(dims, 2) \X Ax(dims, 3) \X Ax(dims, 4) \X Ax(dims, 5)
    [] Len(dims) = 6 ->
         Ax(dims, 1) \X Ax(dims, 2) \X Ax(dims, 3) \X Ax(dims, 4) \X Ax(dims, 5)
           \X Ax(dims, 6)
    [] Len(dims) = 7 ->
         Ax(dims, 1) \X Ax(dims, 2) \X Ax(dims, 3) \X Ax(dims, 4) \X Ax(dims, 5)
           \X Ax(dims, 6) \X Ax(dims, 7)

Free == [dims |-> <<>>, val |-> <<>>]

\* eigen::tensor_index: the sub-tensor at the leading coordinates c
tensor_index(t, c) ==
  LET d == SubSeq(t.dims, Len(c) + 1, Len(t.dims))
  IN  [dims |-> d, val |-> [i \in Indices(d) |-> t.val[c \o i]]]

\* the leading coordinates of an index, and the rest
Lead(i, k) == SubSeq(i, 1, k)
Rest(i, k) == SubSeq(i, k + 1, Len(i))

RECURSIVE Product(_)
Product(dims) == IF dims = <<>> THEN 1 ELSE Head(dims) * Product(Tail(dims))

\* position of an index in the (row-major) buffer of a tensor
RECURSIVE Lin(_, _)
Lin(dims, i) ==
  IF dims = <<>> THEN 0
  ELSE Head(i) * Product(Tail(dims)) + Lin(Tail(dims), Tail(i))

AtLin(t, k) == t.val[CHOOSE i \in DOMAIN t.val : Lin(t.dims, i) = k]

(***************************************************************************)
(* The object pools.  Grids are immutable vectors; two objects may hold    *)
(* the same coordinates.  Coordinates are in units of pi/4.                *)
(***************************************************************************)
GridPool ==
  [g0 |-> <<0>>, g1 |-> <<1>>, g3 |-> <<3>>,
   g02 |-> <<0, 2>>, g04 |-> <<0, 4>>, h02 |-> <<0, 2>>,
   n1 |-> <<>>, n2 |-> <<>>, n3 |-> <<>>, n4 |-> <<>>]

\* the grid objects the calls create (std::make_shared<Vector>), empty until then
FreshGridIds == <<"n1", "n2", "n3", "n4">>
GridIds == DOMAIN GridPool \ {FreshGridIds[k] : k \in 1..Len(FreshGridIds)}

\* the SHT objects: l_max, m_max and the size of the spatial grid.  s0 and
\* s1 are the transforms the conversions are run with; c1, c2 and c3 have
\* truncations that store a coefficient (l, m) at different places and
\* are used in the coefficient domain only; m1 and m2 are the objects
\* std::make_shared<sht::SHT>(1, 0, 1, 2) creates, not made until then.
ShtPool ==
  [s0 |-> [l_max |-> 0, m_max |-> 0, n_lon |-> 1, n_lat |-> 2, made |-> TRUE],
   s1 |-> [l_max |-> 1, m_max |-> 0, n_lon |-> 1, n_lat |-> 2, made |-> TRUE],
   c1 |-> [l_max |-> 1, m_max |-> 1, n_lon |-> 4, n_lat |-> 2, made |-> TRUE],
   c2 |-> [l_max |-> 2, m_max |-> 1, n_lon |-> 4, n_lat |-> 3, made |-> TRUE],
   c3 |-> [l_max |-> 2, m_max |-> 0, n_lon |-> 1, n_lat |-> 3, made |-> TRUE],
   m1 |-> [l_max |-> 1, m_max |-> 0, n_lon |-> 1, n_lat |-> 2, made |-> FALSE],
   m2 |-> [l_max |-> 1, m_max |-> 0, n_lon |-> 1, n_lat |-> 2, made |-> FALSE]]

FreshShtIds == <<"m1", "m2">>
CoeffShtIds == {"c1", "c2", "c3"}
ShtIds == {"s0", "s1"}
FieldIds == {"a", "b"}
TensorIds == 1..Cardinality(FieldIds)

NoField ==
  [fmt |-> "none", n_freqs_ |-> 0, n_temps_ |-> 0, n_lon_inc_ |-> 0,
   n_lat_inc_ |-> 0, n_lon_scat_ |-> 0, n_lat_scat_ |-> 0, type_ |-> "none",
   f_grid_ |-> "null", t_grid_ |-> "null", lon_inc_ |-> "null",
   lat_inc_ |-> "null", lon_scat_ |-> "null", lat_scat_ |-> "null",
   sht_inc_ |-> "null", sht_scat_ |-> "null", data_ |-> 0]

Live(s) == fields[s].fmt # "none"
IsGridded(s) == fields[s].fmt = "Gridded"
IsSpectral(s) == fields[s].fmt = "Spectral"
IsFullySpectral(s) == fields[s].fmt = "FullySpectral"
Data(s) == heap[fields[s].data_]

\* the lowest tensor id no field other than slot r refers to
NewId(r) ==
  CHOOSE i \in TensorIds :
    /\ \A s \in FieldIds \ {r} : ~(Live(s) /\ fields[s].data_ = i)
    /\ \A j \in TensorIds :
         (\A s \in FieldIds \ {r} : ~(Live(s) /\ fields[s].data_ = j)) => i <= j

\* shared_ptr release: a tensor no field refers to is freed
Release(fs, h) ==
  [i \in TensorIds |->
     IF \E s \in FieldIds : fs[s].fmt # "none" /\ fs[s].data_ = i
     THEN h[i] ELSE Free]

\* slot r becomes field f holding the new tensor t
Store(r, f, t) ==
  LET i == NewId(r)
      fs == [fields EXCEPT ![r] = [f EXCEPT !.data_ = i]]
  IN  /\ fields' = fs
      /\ heap' = Release(fs, [heap EXCEPT ![i] = t])

\* the tensor of slot s is overwritten in place
Write(s, t) ==
  /\ heap' = [heap EXCEPT ![fields[s].data_] = t]
  /\ UNCHANGED fields

\* a call that creates grid objects says what grids becomes
CallAlloc(name, self, other, res, args) ==
  /\ calls < MaxCalls
  /\ calls' = calls + 1
  /\ op' = [name |-> name, self |-> self, other |-> other, res |-> res,
            args |-> args]
  /\ pre' = [fields |-> fields, heap |-> heap, grids |-> grids, shts |-> shts]
  /\ UNCHANGED <<shts, scattering_data, quadrature, loop>>

Call(name, self, other, res, args) ==
  /\ CallAlloc(name, self, other, res, args)
  /\ UNCHANGED grids

\* std::make_shared<sht::SHT>(l_max, m_max, n_lon, n_lat): the objects
\* not yet made that have these parameters
Makeable(l_max, m_max, n_lon, n_lat) ==
  {k \in 1..Len(FreshShtIds) :
     shts[FreshShtIds[k]] = [l_max |-> l_max, m_max |-> m_max, n_lon |-> n_lon,
                             n_lat |-> n_lat, made |-> FALSE]}

MakeSht(l_max, m_max, n_lon, n_lat) ==
  FreshShtIds[CHOOSE k \in Makeable(l_max, m_max, n_lon, n_lat) :
                \A j \in Makeable(l_max, m_max, n_lon, n_lat) : k <= j]

\* a call that creates the transform sht
CallMake(name, self, other, res, args, sht) ==
  /\ calls < MaxCalls
  /\ calls' = calls + 1
  /\ op' = [name |-> name, self |-> self, other |-> other, res |-> res,
            args |-> args]
  /\ pre' = [fields |-> fields, heap |-> heap, grids |-> grids, shts |-> shts]
  /\ shts' = [shts EXCEPT ![sht].made = TRUE]
  /\ UNCHANGED <<grids, scattering_data, quadrature, loop>>

NoRet == [kind |-> "none"]
Fails(e) == /\ err' = e /\ ret' = NoRet /\ UNCHANGED <<fields, heap>>
Returns(r) == /\ err' = "none" /\ ret' = r

(***************************************************************************)
(* RegularRegridder<Scalar, Axes...> (scattering/interpolation.h): linear  *)
(* interpolation along each selected axis in turn.  A target coordinate    *)
(* outside the source grid is an error unless extrapolate is set, and is   *)
(* then extrapolated with the slope of the boundary interval.              *)
(***************************************************************************)
RegularRegridder(axes, old_grids, new_grids, extrapolate) ==
  [axes |-> axes, old_grids |-> old_grids, new_grids |-> new_grids,
   extrapolate |-> extrapolate]

InRange(src, x) == src[1] <= x /\ x <= src[Len(src)]

regrid_fails(r) ==
  /\ ~r.extrapolate
  /\ \E k \in 1..Len(r.axes) : \E j \in 1..Len(r.new_grids[k]) :
       ~InRange(r.old_grids[k], r.new_grids[k][j])

\* the node to the left of x (1-based), clamped to the boundary intervals
LeftNode(src, x) ==
  LET below == {i \in 1..(Len(src) - 1) : src[i] <= x}
  IN  IF below = {} THEN 1
      ELSE CHOOSE i \in below : \A j \in below : j <= i

regrid_axis(t, axis, src, tgt) ==
  LET k == axis + 1
      d == [t.dims EXCEPT ![k] = Len(tgt)]
  IN  [dims |-> d,
       val |-> [i \in Indices(d) |->
         LET x == tgt[i[k] + 1]
             n == LeftNode(src, x)
         IN  IF Len(src) = 1 THEN t.val[[i EXCEPT ![k] = 0]]
             ELSE LET w == QDiv(Q(x - src[n]), Q(src[n + 1] - src[n]))
                  IN  VAdd(VScale(QSub(Q(1), w), t.val[[i EXCEPT ![k] = n - 1]]),
                           VScale(w, t.val[[i EXCEPT ![k] = n]]))]]

RECURSIVE regrid_from(_, _, _)
regrid_from(r, t, k) ==
  IF k > Len(r.axes) THEN t
  ELSE regrid_from(r, regrid_axis(t, r.axes[k], r.old_grids[k], r.new_grids[k]), k + 1)

regrid(r, t) == regrid_from(r, t, 1)

(***************************************************************************)
(* downsample_dimension<axis> (scattering/interpolation.h): conservative   *)
(* downsampling along one axis.  Every node of the output grid stands for  *)
(* the cell between the midpoints to its neighbours, the first and last    *)
(* cell reaching to minimum and maximum; its value is the mean over the    *)
(* cell of the piecewise linear function through the input nodes, so that  *)
(* the cell sizes times the values add up to the integral of the input.    *)
(* Coordinates are doubled here, which makes the midpoints whole numbers.  *)
(***************************************************************************)
Twice(grid) == [k \in 1..Len(grid) |-> 2 * grid[k]]

\* the piecewise linear function through vals at the nodes xs, constant
\* beyond the end nodes, at p
LinearAt(xs, vals, p) ==
  IF p <= xs[1] THEN vals[1]
  ELSE IF p >= xs[Len(xs)] THEN vals[Len(xs)]
  ELSE LET n == LeftNode(xs, p)
           w == QDiv(Q(p - xs[n]), Q(xs[n + 1] - xs[n]))
       IN  QAdd(QMul(QSub(Q(1), w), vals[n]), QMul(w, vals[n + 1]))

RECURSIVE PieceSum(_, _)
PieceSum(f, S) ==
  IF S = {} THEN QZero
  ELSE LET x == CHOOSE y \in S : TRUE IN QAdd(f[x], PieceSum(f, S \ {x}))

\* the integral of that function from l to r
IntegralOver(xs, vals, l, r) ==
  LET B == {l, r} \cup {xs[k] : k \in {j \in 1..Len(xs) : l < xs[j] /\ xs[j] < r}}
      next(b) == CHOOSE c \in B : c > b /\ \A e \in B : e > b => c <= e
      piece == [b \in B \ {r} |->
                  QMul(QDiv(Q(next(b) - b), Q(2)),
                       QAdd(LinearAt(xs, vals, b), LinearAt(xs, vals, next(b))))]
  IN  PieceSum(piece, B \ {r})

downsample_dimension(t, axis, input_grid, output_grid, minimum, maximum) ==
  LET k == axis + 1
      n == Len(output_grid)
      lo(j) == IF j = 1 THEN 2 * minimum ELSE output_grid[j - 1] + output_grid[j]
      hi(j) == IF j = n THEN 2 * maximum ELSE output_grid[j] + output_grid[j + 1]
      d == [t.dims EXCEPT ![k] = n]
  IN  [dims |-> d,
       val |-> [i \in Indices(d) |->
         LET vals == [m \in 1..Len(input_grid) |-> t.val[[i EXCEPT ![k] = m - 1]][1]]
             j == i[k] + 1
         IN  <<QDiv(IntegralOver(Twice(input_grid), vals, lo(j), hi(j)),
                    Q(hi(j) - lo(j)))>>]]

(***************************************************************************)
(* integrate_angles (scattering/integration.h): the integral of a          *)
(* longitude x colatitude matrix, a weighted sum of its entries with       *)
(* trapezoidal weights; a single longitude stands for the full circle.     *)
(* Cosines and pi are the rationals the arithmetic of the model uses:      *)
(* in units of pi/4, cos 0 = 1, cos 2 = 0, cos 4 = -1.                     *)
(***************************************************************************)
Cos(x) ==
  CASE x = 0 -> Q(1) [] x = 1 -> <<7, 10>> [] x = 2 -> Q(0)
    [] x = 3 -> <<-7, 10>> [] x = 4 -> Q(-1)

\* 2 pi, in the units of the longitude grids
FullCircle == Q(8)

TrapezoidWeight(x, j) ==
  LET n == Len(x)
      l == IF j > 1 THEN QSub(x[j], x[j - 1]) ELSE QZero
      u == IF j < n THEN QSub(x[j + 1], x[j]) ELSE QZero
  IN  QDiv(QAdd(l, u), Q(2))

RECURSIVE QSum(_, _)
QSum(f, S) ==
  IF S = {} THEN QZero
  ELSE LET x == CHOOSE y \in S : TRUE IN QAdd(f[x], QSum(f, S \ {x}))

\* m maps <<i, j>> (longitude, latitude index) to a value
integrate_angles(m, n_lon, n_lat, longitudes, colatitudes) ==
  LET lon == [j \in 1..n_lon |-> Q(longitudes[j])]
      wlon(i) == IF n_lon = 1 THEN FullCircle ELSE TrapezoidWeight(lon, i)
      D == (0..(n_lon - 1)) \X (0..(n_lat - 1))
      f == [c \in D |->
              QMul(QMul(wlon(c[1] + 1), TrapezoidWeight(colatitudes, c[2] + 1)),
                   VReal(m[c]))]
  IN  QSum(f, D)

(***************************************************************************)
(* Eigen tensor assignment and accumulation.  The library compares the     *)
(* dimensions of the two sides only in an assertion; without it the        *)
(* buffer of the right-hand side is read entry by entry for every entry    *)
(* of the left-hand side, past its end when it is shorter (g is the value  *)
(* such a read yields).                                                    *)
(***************************************************************************)
Garbage(k) == {VZero(k), [i \in 1..k |-> Q(3)]}

Components(t) == IF DOMAIN t.val = {} THEN 1 ELSE Len(t.val[CHOOSE i \in DOMAIN t.val : TRUE])

ReadAt(src, k, g) == IF k < Product(src.dims) THEN AtLin(src, k) ELSE g

assign(dst, src, g) ==
  IF dst.dims = src.dims THEN [dst EXCEPT !.val = src.val]
  ELSE [dst EXCEPT !.val = [i \in DOMAIN dst.val |-> ReadAt(src, Lin(dst.dims, i), g)]]

add_assign(dst, src, g) ==
  IF dst.dims = src.dims
  THEN [dst EXCEPT !.val = [i \in DOMAIN dst.val |-> VAdd(dst.val[i], src.val[i])]]
  ELSE [dst EXCEPT !.val = [i \in DOMAIN dst.val |->
                              VAdd(dst.val[i], ReadAt(src, Lin(dst.dims, i), g))]]

\* t with the sub-tensor at the leading coordinates c replaced by sub
put_subtensor(t, c, sub) ==
  [t EXCEPT !.val = [i \in DOMAIN t.val |->
     IF Lead(i, Len(c)) = c THEN sub.val[Rest(i, Len(c))] ELSE t.val[i]]]

scale(c, t) == [t EXCEPT !.val = [i \in DOMAIN t.val |-> VScale(c, t.val[i])]]

\* a tensor allocated with the given dimensions: its entries are not initialised
uninitialized(dims, g) == [dims |-> dims, val |-> [i \in Indices(dims) |-> g]]

(***************************************************************************)
(* ScatteringDataFieldGridded                                              *)
(***************************************************************************)
G(id) == grids[id]
Size(id) == Len(grids[id])

\* gs: the grid objects the pointers refer to
ScatteringDataFieldGridded_in(gs, f_grid, t_grid, lon_inc, lat_inc, lon_scat, lat_scat) ==
  LET b == ScatteringDataFieldBase(Len(gs[f_grid]), Len(gs[t_grid]), Len(gs[lon_inc]),
                                   Len(gs[lat_inc]), Len(gs[lon_scat]), Len(gs[lat_scat]))
  IN  [fmt |-> "Gridded", n_freqs_ |-> b.n_freqs_, n_temps_ |-> b.n_temps_,
       n_lon_inc_ |-> b.n_lon_inc_, n_lat_inc_ |-> b.n_lat_inc_,
       n_lon_scat_ |-> b.n_lon_scat_, n_lat_scat_ |-> b.n_lat_scat_,
       type_ |-> b.type_,
       f_grid_ |-> f_grid, t_grid_ |-> t_grid, lon_inc_ |-> lon_inc,
       lat_inc_ |-> lat_inc, lon_scat_ |-> lon_scat, lat_scat_ |-> lat_scat,
       sht_inc_ |-> "null", sht_scat_ |-> "null", data_ |-> 0]

ScatteringDataFieldGridded(f_grid, t_grid, lon_inc, lat_inc, lon_scat, lat_scat) ==
  ScatteringDataFieldGridded_in(grids, f_grid, t_grid, lon_inc, lat_inc, lon_scat, lat_scat)

\* the data handed to the constructors; i[k] is the index along axis k - 1
\* and lat the position of the last angular axis
Pattern(p, i, lat) ==
  CASE p = "one" -> 1
    [] p = "mix" -> IF i[1] = 0 THEN (IF i[lat] = 0 THEN 1 ELSE -1) ELSE 2
    [] p = "elem" -> 1 + i[Len(i)] + i[1]
    [] p = "zero" -> IF i[1] = 0 THEN 0 ELSE 1 + i[Len(i)]
    [] p = "inc" -> 1 + 2 * i[4] + i[Len(i)]

GridSizes(c) == [k \in 1..Len(c) |-> Size(c[k])]

GriddedData(c, n_elements, p) ==
  LET d == GridSizes(c) \o <<n_elements>>
  IN  [dims |-> d, val |-> [i \in Indices(d) |-> <<Q(Pattern(p, i, 6))>>]]

\* the constructor arguments of the program: the six grids, the number of
\* elements and the data.  Random particles (the first three),
\* azimuthally random ones with and without a scattering-azimuth grid,
\* and a general one.
GriddedFixtures ==
  {<<<<"g02", "g02", "g0", "g0", "g0", "g04">>, 2, "mix">>,
   <<<<"g02", "g02", "g0", "g0", "g0", "g04">>, 2, "elem">>,
   <<<<"h02", "g02", "g0", "g0", "g0", "g04">>, 1, "one">>,
   <<<<"g04", "g1", "g0", "g02", "g04", "g04">>, 1, "mix">>,
   <<<<"g02", "g1", "g0", "g02", "g0", "g02">>, 1, "one">>,
   <<<<"g1", "g02", "g02", "g0", "g0", "g04">>, 1, "elem">>}

GriddedGrids == {x[1] : x \in GriddedFixtures}

\* ScatteringDataFieldGridded(f_grid, ..., lat_scat, data): the field keeps
\* the grids and the tensor it is handed, whatever the shape of the tensor
Gridded_construct(r, c, data) ==
  /\ Call("Gridded::Gridded", "none", "none", r, <<c, data>>)
  /\ Store(r, ScatteringDataFieldGridded(c[1], c[2], c[3], c[4], c[5], c[6]), data)
  /\ Returns(NoRet)

\* ScatteringDataFieldGridded(f_grid, ..., lat_scat, n_elements)
Gridded_construct_empty(r, c, n, g) ==
  /\ Call("Gridded::Gridded(empty)", "none", "none", r, <<c, n>>)
  /\ Store(r, ScatteringDataFieldGridded(c[1], c[2], c[3], c[4], c[5], c[6]),
           uninitialized(GridSizes(c) \o <<n>>, g))
  /\ Returns(NoRet)

\* ScatteringDataFieldGridded(const ScatteringDataFieldGridded &) = default
Gridded_shallow_copy(r, s) ==
  /\ IsGridded(s) /\ r # s
  /\ Call("Gridded::Gridded(copy)", s, "none", r, <<>>)
  /\ LET fs == [fields EXCEPT ![r] = fields[s]]
     IN  fields' = fs /\ heap' = Release(fs, heap)
  /\ Returns(NoRet)

Gridded_copy(r, s) ==
  /\ IsGridded(s)
  /\ Call("Gridded::copy", s, "none", r, <<>>)
  /\ LET f == fields[s]
     IN  Store(r, ScatteringDataFieldGridded(f.f_grid_, f.t_grid_, f.lon_inc_,
                                             f.lat_inc_, f.lon_scat_, f.lat_scat_),
               Data(s))
  /\ Returns(NoRet)

\* the extrapolate argument of RegularRegridder when the caller gives none
DefaultExtrapolate == FALSE

AngularGrids(f) == <<G(f.lon_inc_), G(f.lat_inc_), G(f.lon_scat_), G(f.lat_scat_)>>
AllGrids(f) == <<G(f.f_grid_), G(f.t_grid_)>> \o AngularGrids(f)

\* tensor_index(*data_, data_index) = tensor_index(regridded, input_index)
Gridded_set_data_result(dst, src, g) == assign(dst, src, g)

\* mutant: the regridded data are written to the tensor of other
Gridded_set_data_write_other(s, o, t) == Write(o, t)

\* the assignment goes to the tensor of *this
Gridded_set_data_write(s, o, t) == Write(s, t)

Gridded_set_data(s, frequency_index, temperature_index, o) ==
  /\ IsGridded(s) /\ IsGridded(o)
  /\ frequency_index \in 0..(Data(s).dims[1] - 1)
  /\ temperature_index \in 0..(Data(s).dims[2] - 1)
  /\ Call("Gridded::set_data", s, o, "none", <<frequency_index, temperature_index>>)
  /\ LET regridder == RegularRegridder(<<2, 3, 4, 5>>, AngularGrids(fields[o]),
                                       AngularGrids(fields[s]), DefaultExtrapolate)
         data_index == <<frequency_index, temperature_index>>
     IN  IF regrid_fails(regridder) THEN Fails("out_of_range")
         ELSE LET regridded == regrid(regridder, Data(o))
                  src == tensor_index(regridded, <<0, 0>>)
                  dst == tensor_index(Data(s), data_index)
              IN  IF src.dims = dst.dims
                  THEN /\ Gridded_set_data_write(s, o,
                            put_subtensor(Data(s), data_index,
                                          Gridded_set_data_result(dst, src, VZero(1))))
                       /\ Returns(NoRet)
                  ELSE \/ Fails("dimension_mismatch")
                       \/ \E g \in Garbage(1) :
                            /\ Gridded_set_data_write(s, o,
                                 put_subtensor(Data(s), data_index,
                                               Gridded_set_data_result(dst, src, g)))
                            /\ Returns(NoRet)

\* mutant: the result keeps the frequency grid of the source
Gridded_interpolate_frequency_field_keep(f, frequencies) ==
  ScatteringDataFieldGridded(f.f_grid_, f.t_grid_, f.lon_inc_, f.lat_inc_,
                             f.lon_scat_, f.lat_scat_)

Gridded_interpolate_frequency_field(f, frequencies) ==
  ScatteringDataFieldGridded(frequencies, f.t_grid_, f.lon_inc_, f.lat_inc_,
                             f.lon_scat_, f.lat_scat_)

Gridded_interpolate_frequency(r, s, frequencies) ==
  /\ IsGridded(s)
  /\ Call("Gridded::interpolate_frequency", s, "none", r, <<frequencies>>)
  /\ LET regridder == RegularRegridder(<<0>>, <<G(fields[s].f_grid_)>>,
                                       <<G(frequencies)>>, DefaultExtrapolate)
     IN  IF regrid_fails(regridder) THEN Fails("out_of_range")
         ELSE /\ Store(r, Gridded_interpolate_frequency_field(fields[s], frequencies),
                       regrid(regridder, Data(s)))
              /\ Returns(NoRet)

\* mutant: the extrapolate argument is not handed on to the regridder
Gridded_interpolate_temperature_regridder_default(f, temperatures, extrapolate) ==
  RegularRegridder(<<1>>, <<G(f.t_grid_)>>, <<G(temperatures)>>, DefaultExtrapolate)

Gridded_interpolate_temperature_regridder(f, temperatures, extrapolate) ==
  RegularRegridder(<<1>>, <<G(f.t_grid_)>>, <<G(temperatures)>>, extrapolate)

Gridded_interpolate_temperature(r, s, temperatures, extrapolate) ==
  /\ IsGridded(s)
  /\ Call("Gridded::interpolate_temperature", s, "none", r, <<temperatures, extrapolate>>)
  /\ LET regridder == Gridded_interpolate_temperature_regridder(fields[s], temperatures,
                                                                extrapolate)
         f == fields[s]
     IN  IF regrid_fails(regridder) THEN Fails("out_of_range")
         ELSE /\ Store(r, ScatteringDataFieldGridded(f.f_grid_, temperatures, f.lon_inc_,
                                                     f.lat_inc_, f.lon_scat_, f.lat_scat_),
                       regrid(regridder, Data(s)))
              /\ Returns(NoRet)

Gridded_interpolate_angles(r, s, lon_inc_new, lat_inc_new, lon_scat_new, lat_scat_new) ==
  /\ IsGridded(s)
  /\ Call("Gridded::interpolate_angles", s, "none", r,
          <<lon_inc_new, lat_inc_new, lon_scat_new, lat_scat_new>>)
  /\ LET f == fields[s]
         regridder == RegularRegridder(<<2, 3, 4, 5>>, AngularGrids(f),
                        <<G(lon_inc_new), G(lat_inc_new), G(lon_scat_new), G(lat_scat_new)>>,
                        DefaultExtrapolate)
     IN  IF regrid_fails(regridder) THEN Fails("out_of_range")
         ELSE /\ Store(r, ScatteringDataFieldGridded(f.f_grid_, f.t_grid_, lon_inc_new,
                                                     lat_inc_new, lon_scat_new, lat_scat_new),
                       regrid(regridder, Data(s)))
              /\ Returns(NoRet)

\* mutant: the scattering azimuth is left as it is
Gridded_downsample_scattering_angles_data_zenith(f, t, lon_scat_new, lat_scat_new) ==
  regrid(RegularRegridder(<<5>>, <<G(f.lat_scat_)>>, <<G(lat_scat_new)>>,
                          DefaultExtrapolate), t)

\* downsample_dimension<4> over [0, 2 pi], then the regridder along axis 5
Gridded_downsample_scattering_angles_data(f, t, lon_scat_new, lat_scat_new) ==
  LET data_downsampled == downsample_dimension(t, 4, G(f.lon_scat_), G(lon_scat_new),
                                               0, FullCircle[1])
  IN  regrid(RegularRegridder(<<5>>, <<G(f.lat_scat_)>>, <<G(lat_scat_new)>>,
                              DefaultExtrapolate), data_downsampled)

Gridded_downsample_scattering_angles(r, s, lon_scat_new, lat_scat_new) ==
  /\ IsGridded(s)
  /\ Call("Gridded::downsample_scattering_angles", s, "none", r,
          <<lon_scat_new, lat_scat_new>>)
  /\ LET f == fields[s]
         regridder == RegularRegridder(<<5>>, <<G(f.lat_scat_)>>, <<G(lat_scat_new)>>,
                                       DefaultExtrapolate)
     IN  IF regrid_fails(regridder) THEN Fails("out_of_range")
         ELSE /\ Store(r, ScatteringDataFieldGridded(f.f_grid_, f.t_grid_, f.lon_inc_,
                                                     f.lat_inc_, lon_scat_new, lat_scat_new),
                       Gridded_downsample_scattering_angles_data(f, Data(s), lon_scat_new,
                                                                 lat_scat_new))
              /\ Returns(NoRet)

\* the field regrid returns, or the failure of the regridder
Gridded_regrid_fails(f, c) ==
  regrid_fails(RegularRegridder(<<0, 1, 2, 3, 4, 5>>, AllGrids(f),
                                [k \in 1..6 |-> G(c[k])], DefaultExtrapolate))

Gridded_regrid_data(f, t, c) ==
  regrid(RegularRegridder(<<0, 1, 2, 3, 4, 5>>, AllGrids(f),
                          [k \in 1..6 |-> G(c[k])], DefaultExtrapolate), t)

Gridded_regrid(r, s, c) ==
  /\ IsGridded(s)
  /\ Call("Gridded::regrid", s, "none", r, <<c>>)
  /\ IF Gridded_regrid_fails(fields[s], c) THEN Fails("out_of_range")
     ELSE /\ Store(r, ScatteringDataFieldGridded(c[1], c[2], c[3], c[4], c[5], c[6]),
                   Gridded_regrid_data(fields[s], Data(s), c))
          /\ Returns(NoRet)

Colatitudes(lat) == [j \in 1..Len(lat) |-> QSub(QZero, Cos(lat[j]))]

\* get_submatrix<4, 5>(t, c): the scattering-angle matrix at the outer
\* coordinates c = (f, t, lon_inc, lat_inc, element)
Gridded_submatrix(t, c) ==
  [m \in (0..(t.dims[5] - 1)) \X (0..(t.dims[6] - 1)) |->
     t.val[<<c[1], c[2], c[3], c[4], m[1], m[2], c[5]>>]]

Gridded_integrate_scattering_angles_result(f, t) ==
  LET dimensions == <<f.n_freqs_, f.n_temps_, f.n_lon_inc_, f.n_lat_inc_, t.dims[7]>>
      colatitudes == Colatitudes(G(f.lat_scat_))
  IN  [dims |-> dimensions,
       val |-> [i \in Indices(dimensions) |->
                 <<integrate_angles(Gridded_submatrix(t, i), t.dims[5], t.dims[6],
                                    G(f.lon_scat_), colatitudes)>>]]

Gridded_integrate_scattering_angles(s) ==
  /\ IsGridded(s)
  /\ Call("Gridded::integrate_scattering_angles", s, "none", "none", <<>>)
  /\ Returns([kind |-> "tensor",
              t |-> Gridded_integrate_scattering_angles_result(fields[s], Data(s))])
  /\ UNCHANGED <<fields, heap>>

\* mutant: the data are scaled by value, not by value / integral
Gridded_normalize_result_value(f, t, value) ==
  LET integrals == Gridded_integrate_scattering_angles_result(f, t)
  IN  [t EXCEPT !.val = [i \in DOMAIN t.val |->
        LET integral == integrals.val[<<i[1], i[2], i[3], i[4], 0>>][1]
        IN  IF integral # QZero THEN VScale(value, t.val[i])
            ELSE t.val[i]]]

\* mutant: every element is scaled by its own integral
Gridded_normalize_result_own(f, t, value) ==
  LET integrals == Gridded_integrate_scattering_angles_result(f, t)
  IN  [t EXCEPT !.val = [i \in DOMAIN t.val |->
        LET integral == integrals.val[<<i[1], i[2], i[3], i[4], i[7]>>][1]
        IN  IF integral # QZero THEN VScale(QDiv(value, integral), t.val[i])
            ELSE t.val[i]]]

\* mutant: the scale is applied without the test of the integral
Gridded_normalize_result_unguarded(f, t, value) ==
  LET integrals == Gridded_integrate_scattering_angles_result(f, t)
  IN  [t EXCEPT !.val = [i \in DOMAIN t.val |->
        LET integral == integrals.val[<<i[1], i[2], i[3], i[4], 0>>][1]
        IN  VScale(QDiv(value, integral), t.val[i])]]

Gridded_normalize_result(f, t, value) ==
  LET integrals == Gridded_integrate_scattering_angles_result(f, t)
  IN  [t EXCEPT !.val = [i \in DOMAIN t.val |->
        LET integral == integrals.val[<<i[1], i[2], i[3], i[4], 0>>][1]
        IN  IF integral # QZero THEN VScale(QDiv(value, integral), t.val[i])
            ELSE t.val[i]]]

Gridded_normalize(s, value) ==
  /\ IsGridded(s)
  /\ Call("Gridded::normalize", s, "none", "none", <<value>>)
  /\ LET t == Gridded_normalize_result(fields[s], Data(s), value)
     IN  Write(s, t)
  /\ Returns(NoRet)

\* *data_ += regridded.get_data(), other regridded to the grids of f
Gridded_add_assign_fails(f, other) ==
  Gridded_regrid_fails(other, <<f.f_grid_, f.t_grid_, f.lon_inc_, f.lat_inc_,
                                f.lon_scat_, f.lat_scat_>>)

Gridded_add_assign_regridded(f, other, t_other) ==
  Gridded_regrid_data(other, t_other,
                      <<f.f_grid_, f.t_grid_, f.lon_inc_, f.lat_inc_,
                        f.lon_scat_, f.lat_scat_>>)

\* mutant: the receiver is written to before the operand is regridded
Gridded_operator_add_assign_eager(s, o) ==
  /\ IsGridded(s) /\ IsGridded(o)
  /\ Call("Gridded::operator+=", s, o, "none", <<>>)
  /\ IF Gridded_add_assign_fails(fields[s], fields[o])
     THEN /\ Write(s, add_assign(Data(s), Data(s), VZero(1)))
          /\ err' = "out_of_range"
          /\ ret' = NoRet
     ELSE /\ Write(s, add_assign(Data(s),
                                 Gridded_add_assign_regridded(fields[s], fields[o], Data(o)),
                                 VZero(1)))
          /\ Returns([kind |-> "copy", self |-> s])

\* ScatteringDataFieldGridded operator+=(other): returns *this by value
Gridded_operator_add_assign(s, o) ==
  /\ IsGridded(s) /\ IsGridded(o)
  /\ Call("Gridded::operator+=", s, o, "none", <<>>)
  /\ IF Gridded_add_assign_fails(fields[s], fields[o]) THEN Fails("out_of_range")
     ELSE LET regridded == Gridded_add_assign_regridded(fields[s], fields[o], Data(o))
          IN  IF regridded.dims = Data(s).dims
              THEN LET t == add_assign(Data(s), regridded, VZero(1))
                   IN  /\ Write(s, t)
                       /\ Returns([kind |-> "copy", self |-> s])
              ELSE \/ Fails("dimension_mismatch")
                   \/ \E g \in Garbage(1) :
                        /\ Write(s, add_assign(Data(s), regridded, g))
                        /\ Returns([kind |-> "copy", self |-> s])

\* operator+(other) const: copy(), then += on the copy
Gridded_operator_add(r, s, o) ==
  /\ IsGridded(s) /\ IsGridded(o)
  /\ Call("Gridded::operator+", s, o, r, <<>>)
  /\ LET f == fields[s]
         result == ScatteringDataFieldGridded(f.f_grid_, f.t_grid_, f.lon_inc_,
                                              f.lat_inc_, f.lon_scat_, f.lat_scat_)
     IN  IF Gridded_add_assign_fails(f, fields[o]) THEN Fails("out_of_range")
         ELSE LET regridded == Gridded_add_assign_regridded(f, fields[o], Data(o))
              IN  IF regridded.dims = Data(s).dims
                  THEN LET t == add_assign(Data(s), regridded, VZero(1))
                       IN  /\ Store(r, result, t)
                           /\ Returns(NoRet)
                  ELSE \/ Fails("dimension_mismatch")
                       \/ \E g \in Garbage(1) :
                            /\ Store(r, result, add_assign(Data(s), regridded, g))
                            /\ Returns(NoRet)

ScaleFactors == {Q(2), <<1, 2>>}

\* ScatteringDataFieldGridded operator*=(c): returns *this by value
Gridded_operator_mul_assign(s, c) ==
  /\ IsGridded(s)
  /\ Call("Gridded::operator*=", s, "none", "none", <<c>>)
  /\ LET t == scale(c, Data(s)) IN Write(s, t)
  /\ Returns([kind |-> "copy", self |-> s])

Gridded_operator_mul(r, s, c) ==
  /\ IsGridded(s)
  /\ Call("Gridded::operator*", s, "none", r, <<c>>)
  /\ LET f == fields[s]
         t == scale(c, Data(s))
     IN  /\ Store(r, ScatteringDataFieldGridded(f.f_grid_, f.t_grid_, f.lon_inc_,
                                                f.lat_inc_, f.lon_scat_, f.lat_scat_), t)
  /\ Returns(NoRet)

\* eigen::copy(dest, source), the resize with zero fill of the tensor
\* library: the entries of source at the indices the two share, and zero
\* at every other index of dest
copy(dest, source) ==
  [dest EXCEPT !.val = [i \in DOMAIN dest.val |->
     IF i \in DOMAIN source.val THEN source.val[i] ELSE VZero(Len(dest.val[i]))]]

\* mutant: the axis before the element axis is resized
set_number_of_scattering_coeffs_data_axis(t, n, g) ==
  LET k == Len(t.dims) - 1
  IN  copy(uninitialized([t.dims EXCEPT ![k] = n], g), t)

\* the tensor set_number_of_scattering_coeffs leaves in data_
set_number_of_scattering_coeffs_data(t, n, g) ==
  LET k == Len(t.dims)
  IN  IF t.dims[k] = n THEN t
      ELSE copy(uninitialized([t.dims EXCEPT ![k] = n], g), t)

Gridded_set_number_of_scattering_coeffs(s, n) ==
  /\ IsGridded(s)
  /\ Call("Gridded::set_number_of_scattering_coeffs", s, "none", "none", <<n>>)
  /\ IF Data(s).dims[7] = n THEN UNCHANGED <<fields, heap>>
     ELSE \E g \in Garbage(1) :
            Store(s, fields[s], set_number_of_scattering_coeffs_data(Data(s), n, g))
  /\ Returns(NoRet)

(***************************************************************************)
(* sht::SHT (scattering/sht.h): the spherical harmonics transforms.  The   *)
(* coefficients are stored by order m and then by degree l.  The           *)
(* transforms of the pool are zonal with two Gauss-Legendre latitudes,     *)
(* whose cosines are +-1/sqrt(3); with Y_0 = 1/sqrt(4 pi) and              *)
(* Y_1 = sqrt(3/(4 pi)) cos the square roots of 3 cancel.  In the units of *)
(* the model 2 pi = 8, so 4 pi = 16 and sqrt(4 pi) = 4.                    *)
(***************************************************************************)
Sqrt4Pi == Q(4)

get_n_longitudes(id) == shts[id].n_lon
get_n_latitudes(id) == shts[id].n_lat

CoeffsOfOrder(sht, m) == [k \in 1..(sht.l_max - m + 1) |-> <<m + k - 1, m>>]

RECURSIVE CoeffsFrom(_, _)
CoeffsFrom(sht, m) ==
  IF m > sht.m_max THEN <<>> ELSE CoeffsOfOrder(sht, m) \o CoeffsFrom(sht, m + 1)

\* the (l, m) of the coefficients, in storage order
Coeffs(id) == CoeffsFrom(shts[id], 0)

get_n_spectral_coeffs(id) == Len(Coeffs(id))

get_n_spectral_coeffs_cmplx(id) ==
  (2 * shts[id].m_max + 1) * (shts[id].l_max + 1)
    - shts[id].m_max * (shts[id].m_max + 1)

\* where the transform id keeps coefficient lm; 0 when it does not
CoeffIndex(id, lm) ==
  IF \E k \in 1..Len(Coeffs(id)) : Coeffs(id)[k] = lm
  THEN CHOOSE k \in 1..Len(Coeffs(id)) : Coeffs(id)[k] = lm
  ELSE 0

\* add_coeffs(sht_l, v, sht_r, w): v plus the coefficients of w it has room for
add_coeffs(sht_l, v, sht_r, w) ==
  [k \in 1..Len(v) |->
     LET j == CoeffIndex(sht_r, Coeffs(sht_l)[k])
     IN  IF j = 0 THEN v[k] ELSE VAdd(v[k], w[j])]

\* the (l, m) of the coefficients of the complex transform: the orders
\* m >= 0 as above, then the negative orders
NegativeOrders(c) ==
  LET neg == {k \in 1..Len(c) : c[k][2] > 0}
      nth(n) == CHOOSE k \in neg : Cardinality({j \in neg : j < k}) = n - 1
  IN  [n \in 1..Cardinality(neg) |-> <<c[nth(n)][1], -c[nth(n)][2]>>]

CoeffsCmplx(id) == Coeffs(id) \o NegativeOrders(Coeffs(id))

CmplxIndex(id, lm) ==
  IF \E k \in 1..Len(CoeffsCmplx(id)) : CoeffsCmplx(id)[k] = lm
  THEN CHOOSE k \in 1..Len(CoeffsCmplx(id)) : CoeffsCmplx(id)[k] = lm
  ELSE 0

\* add_coeffs(sht_inc_l, sht_scat_l, m_l, sht_inc_r, sht_scat_r, m_r) on
\* coefficient matrices; m maps <<i, j>> (0-based) to a value
add_coeffs_matrix(sht_inc_l, sht_scat_l, m_l, sht_inc_r, sht_scat_r, m_r) ==
  [c \in DOMAIN m_l |->
     LET a == CmplxIndex(sht_inc_r, CoeffsCmplx(sht_inc_l)[c[1] + 1])
         b == CoeffIndex(sht_scat_r, Coeffs(sht_scat_l)[c[2] + 1])
     IN  IF a = 0 \/ b = 0 THEN m_l[c] ELSE VAdd(m_l[c], m_r[<<a - 1, b - 1>>])]

\* sqrt(3) times the cosine of latitude j, and the Legendre polynomial
\* of degree l <= 1 there (without its sqrt(3))
Node(j) == IF j = 0 THEN Q(1) ELSE Q(-1)
Legendre(l, x) == IF l = 0 THEN Q(1) ELSE x

RECURSIVE VSum(_, _)
VSum(f, n) == IF n = 1 THEN f[1] ELSE VAdd(VSum(f, n - 1), f[n])

\* transform: the coefficients of the spatial field m (by <<lon, lat>>)
transform(id, m) ==
  [k \in 1..get_n_spectral_coeffs(id) |->
     LET l == Coeffs(id)[k][1]
     IN  VScale(QDiv(Sqrt4Pi, Q(2)),
                VAdd(VScale(Legendre(l, Node(0)), m[<<0, 0>>]),
                     VScale(Legendre(l, Node(1)), m[<<0, 1>>])))]

\* synthesize: the spatial field of the coefficients v
synthesize(id, v) ==
  [c \in {0} \X {0, 1} |->
     VScale(QDiv(Q(1), Sqrt4Pi),
            VSum([k \in 1..Len(v) |-> VScale(Legendre(Coeffs(id)[k][1], Node(c[2])), v[k])],
                 Len(v)))]

transform_cmplx(id, m) ==
  [k \in 1..get_n_spectral_coeffs_cmplx(id) |->
     LET l == CoeffsCmplx(id)[k][1]
     IN  VScale(QDiv(Sqrt4Pi, Q(2)),
                VAdd(VScale(Legendre(l, Node(0)), m[<<0, 0>>]),
                     VScale(Legendre(l, Node(1)), m[<<0, 1>>])))]

synthesize_cmplx(id, v) ==
  [c \in {0} \X {0, 1} |->
     VScale(QDiv(Q(1), Sqrt4Pi),
            VSum([k \in 1..Len(v) |->
                    VScale(Legendre(CoeffsCmplx(id)[k][1], Node(c[2])), v[k])],
                 Len(v)))]

\* the spatial grids of a transform, to the nearest grid unit
get_longitude_grid(id) == [k \in 1..shts[id].n_lon |-> (8 * (k - 1)) \div shts[id].n_lon]
get_latitude_grid(id) == IF shts[id].n_lat = 1 THEN <<2>> ELSE <<1, 3>>

\* std::make_shared<Vector>: the next two unused grid objects
FirstFree ==
  CHOOSE k \in 1..Len(FreshGridIds) :
    /\ grids[FreshGridIds[k]] = <<>>
    /\ \A j \in 1..(k - 1) : grids[FreshGridIds[j]] # <<>>

CanAllocate ==
  \E k \in 1..(Len(FreshGridIds) - 1) :
    grids[FreshGridIds[k]] = <<>> /\ grids[FreshGridIds[k + 1]] = <<>>

(***************************************************************************)
(* ScatteringDataFieldSpectral                                             *)
(***************************************************************************)
ScatteringDataFieldSpectral_in(gs, f_grid, t_grid, lon_inc, lat_inc, sht_scat) ==
  LET b == ScatteringDataFieldBase(Len(gs[f_grid]), Len(gs[t_grid]), Len(gs[lon_inc]),
                                   Len(gs[lat_inc]), get_n_longitudes(sht_scat),
                                   get_n_latitudes(sht_scat))
  IN  [fmt |-> "Spectral", n_freqs_ |-> b.n_freqs_, n_temps_ |-> b.n_temps_,
       n_lon_inc_ |-> b.n_lon_inc_, n_lat_inc_ |-> b.n_lat_inc_,
       n_lon_scat_ |-> b.n_lon_scat_, n_lat_scat_ |-> b.n_lat_scat_,
       type_ |-> b.type_,
       f_grid_ |-> f_grid, t_grid_ |-> t_grid, lon_inc_ |-> lon_inc,
       lat_inc_ |-> lat_inc, lon_scat_ |-> "null", lat_scat_ |-> "null",
       sht_inc_ |-> "null", sht_scat_ |-> sht_scat, data_ |-> 0]

ScatteringDataFieldSpectral(f_grid, t_grid, lon_inc, lat_inc, sht_scat) ==
  ScatteringDataFieldSpectral_in(grids, f_grid, t_grid, lon_inc, lat_inc, sht_scat)

\* the same grids and transform around other data
SpectralLike(f) ==
  ScatteringDataFieldSpectral(f.f_grid_, f.t_grid_, f.lon_inc_, f.lat_inc_, f.sht_scat_)

SpectralDims(c, sht_scat, n_elements) ==
  GridSizes(c) \o <<get_n_spectral_coeffs(sht_scat), n_elements>>

SpectralData(c, sht_scat, n_elements, p) ==
  LET d == SpectralDims(c, sht_scat, n_elements)
  IN  [dims |-> d,
       val |-> [i \in Indices(d) |-> <<Q(Pattern(p, i, 5)), Q(i[5] + i[6])>>]]

\* the constructor arguments of the program: the four grids, the
\* transform, the number of elements and the data
SpectralFixtures ==
  {<<<<"g02", "g02", "g0", "g0">>, "s1", 2, "zero">>,
   <<<<"g02", "g02", "g0", "g0">>, "s0", 1, "one">>,
   <<<<"g04", "g1", "g0", "g02">>, "s1", 2, "elem">>,
   <<<<"g1", "g1", "g02", "g02">>, "s0", 2, "elem">>}

SpectralGrids == {x[1] : x \in SpectralFixtures}

Spectral_construct(r, c, sht_scat, data) ==
  /\ Call("Spectral::Spectral", "none", "none", r, <<c, sht_scat, data>>)
  /\ Store(r, ScatteringDataFieldSpectral(c[1], c[2], c[3], c[4], sht_scat), data)
  /\ Returns(NoRet)

Spectral_construct_empty(r, c, sht_scat, n, g) ==
  /\ Call("Spectral::Spectral(empty)", "none", "none", r, <<c, sht_scat, n>>)
  /\ Store(r, ScatteringDataFieldSpectral(c[1], c[2], c[3], c[4], sht_scat),
           uninitialized(SpectralDims(c, sht_scat, n), g))
  /\ Returns(NoRet)

Spectral_shallow_copy(r, s) ==
  /\ IsSpectral(s) /\ r # s
  /\ Call("Spectral::Spectral(copy)", s, "none", r, <<>>)
  /\ LET fs == [fields EXCEPT ![r] = fields[s]]
     IN  fields' = fs /\ heap' = Release(fs, heap)
  /\ Returns(NoRet)

Spectral_copy(r, s) ==
  /\ IsSpectral(s)
  /\ Call("Spectral::copy", s, "none", r, <<>>)
  /\ Store(r, SpectralLike(fields[s]), Data(s))
  /\ Returns(NoRet)

\* the coefficient vector of t along axis ka (1-based) through index i;
\* an element index past the end of t reads g
Subvector(t, i, ka, n, g) ==
  [k \in 1..n |->
     IF i[Len(i)] < t.dims[Len(t.dims)] THEN t.val[[i EXCEPT ![ka] = k - 1]] ELSE g]

\* result = add_coeffs(sht_l, in_l, sht_r, in_r) for every outer index of dst
add_coeffs_loop(dst, src, sht_l, sht_r, ka, g) ==
  [dst EXCEPT !.val = [i \in DOMAIN dst.val |->
     add_coeffs(sht_l, Subvector(dst, i, ka, dst.dims[ka], g),
                sht_r, Subvector(src, i, ka, src.dims[ka], g))[i[ka] + 1]]]

Spectral_set_data_result(dst, src, sht_l, sht_r, g) ==
  add_coeffs_loop(dst, src, sht_l, sht_r, 3, g)

Spectral_set_data(s, frequency_index, temperature_index, o) ==
  /\ IsSpectral(s) /\ IsSpectral(o)
  /\ frequency_index \in 0..(Data(s).dims[1] - 1)
  /\ temperature_index \in 0..(Data(s).dims[2] - 1)
  /\ Call("Spectral::set_data", s, o, "none", <<frequency_index, temperature_index>>)
  /\ LET regridder == RegularRegridder(<<2, 3>>,
                        <<G(fields[o].lon_inc_), G(fields[o].lat_inc_)>>,
                        <<G(fields[s].lon_inc_), G(fields[s].lat_inc_)>>,
                        DefaultExtrapolate)
         data_index == <<frequency_index, temperature_index>>
     IN  IF regrid_fails(regridder) THEN Fails("out_of_range")
         ELSE LET regridded == regrid(regridder, Data(o))
                  src == tensor_index(regridded, <<0, 0>>)
                  dst == tensor_index(Data(s), data_index)
              IN  IF src.dims[4] >= dst.dims[4]
                  THEN /\ Write(s, put_subtensor(Data(s), data_index,
                                     Spectral_set_data_result(dst, src, fields[s].sht_scat_,
                                                              fields[o].sht_scat_, VZero(2))))
                       /\ Returns(NoRet)
                  ELSE \/ Fails("index_out_of_range")
                       \/ \E g \in Garbage(2) :
                            /\ Write(s, put_subtensor(Data(s), data_index,
                                          Spectral_set_data_result(dst, src, fields[s].sht_scat_,
                                                                   fields[o].sht_scat_, g)))
                            /\ Returns(NoRet)

Spectral_interpolate_frequency_field(f, frequencies) ==
  ScatteringDataFieldSpectral(frequencies, f.t_grid_, f.lon_inc_, f.lat_inc_, f.sht_scat_)

Spectral_interpolate_frequency(r, s, frequencies) ==
  /\ IsSpectral(s)
  /\ Call("Spectral::interpolate_frequency", s, "none", r, <<frequencies>>)
  /\ LET regridder == RegularRegridder(<<0>>, <<G(fields[s].f_grid_)>>,
                                       <<G(frequencies)>>, DefaultExtrapolate)
     IN  IF regrid_fails(regridder) THEN Fails("out_of_range")
         ELSE /\ Store(r, Spectral_interpolate_frequency_field(fields[s], frequencies),
                       regrid(regridder, Data(s)))
              /\ Returns(NoRet)

Spectral_interpolate_temperature_regridder(f, temperatures, extrapolate) ==
  RegularRegridder(<<1>>, <<G(f.t_grid_)>>, <<G(temperatures)>>, extrapolate)

Spectral_interpolate_temperature(r, s, temperatures, extrapolate) ==
  /\ IsSpectral(s)
  /\ Call("Spectral::interpolate_temperature", s, "none", r, <<temperatures, extrapolate>>)
  /\ LET regridder == Spectral_interpolate_temperature_regridder(fields[s], temperatures,
                                                                 extrapolate)
         f == fields[s]
     IN  IF regrid_fails(regridder) THEN Fails("out_of_range")
         ELSE /\ Store(r, ScatteringDataFieldSpectral(f.f_grid_, temperatures, f.lon_inc_,
                                                      f.lat_inc_, f.sht_scat_),
                       regrid(regridder, Data(s)))
              /\ Returns(NoRet)

Spectral_interpolate_angles(r, s, lon_inc_new, lat_inc_new) ==
  /\ IsSpectral(s)
  /\ Call("Spectral::interpolate_angles", s, "none", r, <<lon_inc_new, lat_inc_new>>)
  /\ LET f == fields[s]
         regridder == RegularRegridder(<<2, 3>>, <<G(f.lon_inc_), G(f.lat_inc_)>>,
                                       <<G(lon_inc_new), G(lat_inc_new)>>,
                                       DefaultExtrapolate)
     IN  IF regrid_fails(regridder) THEN Fails("out_of_range")
         ELSE /\ Store(r, ScatteringDataFieldSpectral(f.f_grid_, f.t_grid_, lon_inc_new,
                                                      lat_inc_new, f.sht_scat_),
                       regrid(regridder, Data(s)))
              /\ Returns(NoRet)

\* mutant: the temperature grid is handed over as the old frequency grid
Spectral_regridder_grids(f, c) ==
  RegularRegridder(<<0, 1, 2, 3>>,
                   <<G(f.t_grid_), G(f.t_grid_), G(f.lon_inc_), G(f.lat_inc_)>>,
                   [k \in 1..4 |-> G(c[k])], DefaultExtrapolate)

Spectral_regridder(f, c) ==
  RegularRegridder(<<0, 1, 2, 3>>,
                   <<G(f.f_grid_), G(f.t_grid_), G(f.lon_inc_), G(f.lat_inc_)>>,
                   [k \in 1..4 |-> G(c[k])], DefaultExtrapolate)

Spectral_regrid(r, s, c) ==
  /\ IsSpectral(s)
  /\ Call("Spectral::regrid", s, "none", r, <<c>>)
  /\ IF regrid_fails(Spectral_regridder(fields[s], c)) THEN Fails("out_of_range")
     ELSE /\ Store(r, ScatteringDataFieldSpectral(c[1], c[2], c[3], c[4],
                                                  fields[s].sht_scat_),
                   regrid(Spectral_regridder(fields[s], c), Data(s)))
          /\ Returns(NoRet)

\* mutant: the real parts of all coefficients are added up
Spectral_integrate_scattering_angles_result_sum(t) ==
  LET d == <<t.dims[1], t.dims[2], t.dims[3], t.dims[4], t.dims[6]>>
  IN  [dims |-> d,
       val |-> [i \in Indices(d) |->
                 <<QMul(VReal(VSum([k \in 1..t.dims[5] |->
                                      t.val[<<i[1], i[2], i[3], i[4], k - 1, i[5]>>]],
                                   t.dims[5])),
                        Sqrt4Pi)>>]]

\* data_->chip<4>(0), real part, times sqrt(4 pi)
Spectral_integrate_scattering_angles_result(t) ==
  LET d == <<t.dims[1], t.dims[2], t.dims[3], t.dims[4], t.dims[6]>>
  IN  [dims |-> d,
       val |-> [i \in Indices(d) |->
                 <<QMul(VReal(t.val[<<i[1], i[2], i[3], i[4], 0, i[5]>>]), Sqrt4Pi)>>]]

Spectral_integrate_scattering_angles(s) ==
  /\ IsSpectral(s)
  /\ Call("Spectral::integrate_scattering_angles", s, "none", "none", <<>>)
  /\ Returns([kind |-> "tensor",
              t |-> Spectral_integrate_scattering_angles_result(Data(s))])
  /\ UNCHANGED <<fields, heap>>

Spectral_normalize_result(t, value) ==
  LET integrals == Spectral_integrate_scattering_angles_result(t)
  IN  [t EXCEPT !.val = [i \in DOMAIN t.val |->
        LET integral == integrals.val[<<i[1], i[2], i[3], i[4], 0>>][1]
        IN  IF integral # QZero THEN VScale(QDiv(value, integral), t.val[i])
            ELSE t.val[i]]]

Spectral_normalize(s, value) ==
  /\ IsSpectral(s)
  /\ Call("Spectral::normalize", s, "none", "none", <<value>>)
  /\ LET t == Spectral_normalize_result(Data(s), value)
     IN  Write(s, t)
  /\ Returns(NoRet)

\* the data after *this += other, other regridded to own grids
Spectral_add_assign_fails(f, other) ==
  regrid_fails(Spectral_regridder(other, <<f.f_grid_, f.t_grid_, f.lon_inc_, f.lat_inc_>>))

\* mutant: the coefficients are added position by position
Spectral_add_assign_result_positional(f, t, other, t_other, g) ==
  LET regridded == regrid(Spectral_regridder(other, <<f.f_grid_, f.t_grid_, f.lon_inc_,
                                                      f.lat_inc_>>), t_other)
  IN  [t EXCEPT !.val = [i \in DOMAIN t.val |->
        IF i \in DOMAIN regridded.val THEN VAdd(t.val[i], regridded.val[i])
        ELSE t.val[i]]]

Spectral_add_assign_result(f, t, other, t_other, g) ==
  LET regridded == regrid(Spectral_regridder(other, <<f.f_grid_, f.t_grid_, f.lon_inc_,
                                                      f.lat_inc_>>), t_other)
  IN  add_coeffs_loop(t, regridded, f.sht_scat_, other.sht_scat_, 5, g)

\* ScatteringDataFieldSpectral &operator+=(other): returns *this
Spectral_operator_add_assign(s, o) ==
  /\ IsSpectral(s) /\ IsSpectral(o)
  /\ Call("Spectral::operator+=", s, o, "none", <<>>)
  /\ IF Spectral_add_assign_fails(fields[s], fields[o]) THEN Fails("out_of_range")
     ELSE IF Data(o).dims[6] >= Data(s).dims[6]
     THEN LET t == Spectral_add_assign_result(fields[s], Data(s), fields[o], Data(o),
                                              VZero(2))
          IN  /\ Write(s, t)
              /\ Returns([kind |-> "reference", self |-> s])
     ELSE \/ Fails("index_out_of_range")
          \/ \E g \in Garbage(2) :
               /\ Write(s, Spectral_add_assign_result(fields[s], Data(s), fields[o],
                                                      Data(o), g))
               /\ Returns([kind |-> "reference", self |-> s])

Spectral_operator_add(r, s, o) ==
  /\ IsSpectral(s) /\ IsSpectral(o)
  /\ Call("Spectral::operator+", s, o, r, <<>>)
  /\ IF Spectral_add_assign_fails(fields[s], fields[o]) THEN Fails("out_of_range")
     ELSE IF Data(o).dims[6] >= Data(s).dims[6]
     THEN LET t == Spectral_add_assign_result(fields[s], Data(s), fields[o], Data(o),
                                              VZero(2))
          IN  /\ Store(r, SpectralLike(fields[s]), t)
              /\ Returns(NoRet)
     ELSE \/ Fails("index_out_of_range")
          \/ \E g \in Garbage(2) :
               /\ Store(r, SpectralLike(fields[s]),
                        Spectral_add_assign_result(fields[s], Data(s), fields[o],
                                                   Data(o), g))
               /\ Returns(NoRet)

Spectral_operator_mul_assign(s, c) ==
  /\ IsSpectral(s)
  /\ Call("Spectral::operator*=", s, "none", "none", <<c>>)
  /\ LET t == scale(c, Data(s)) IN Write(s, t)
  /\ Returns([kind |-> "reference", self |-> s])

Spectral_operator_mul(r, s, c) ==
  /\ IsSpectral(s)
  /\ Call("Spectral::operator*", s, "none", r, <<c>>)
  /\ LET t == scale(c, Data(s)) IN Store(r, SpectralLike(fields[s]), t)
  /\ Returns(NoRet)

Spectral_set_number_of_scattering_coeffs(s, n) ==
  /\ IsSpectral(s)
  /\ Call("Spectral::set_number_of_scattering_coeffs", s, "none", "none", <<n>>)
  /\ IF Data(s).dims[6] = n THEN UNCHANGED <<fields, heap>>
     ELSE \E g \in Garbage(2) :
            Store(s, fields[s], set_number_of_scattering_coeffs_data(Data(s), n, g))
  /\ Returns(NoRet)

\* mutant: the coefficients are handed on as they are
Spectral_to_spectral_data_keep(f, t, sht_other) == t

\* mutant: the new field is not set to zero before the coefficients are added
Spectral_to_spectral_data_unset(f, t, sht_other) ==
  LET unset == [dims |-> [t.dims EXCEPT ![5] = get_n_spectral_coeffs(sht_other)],
                val |-> [i \in Indices([t.dims EXCEPT ![5] = get_n_spectral_coeffs(sht_other)])
                           |-> <<Q(1), Q(0)>>]]
  IN  add_coeffs_loop(unset, t, sht_other, f.sht_scat_, 5, VZero(2))

\* to_spectral(sht_other): a zero field of the new truncation, += *this
Spectral_to_spectral_data(f, t, sht_other) ==
  LET zero == [dims |-> [t.dims EXCEPT ![5] = get_n_spectral_coeffs(sht_other)],
               val |-> [i \in Indices([t.dims EXCEPT ![5] = get_n_spectral_coeffs(sht_other)])
                          |-> VZero(2)]]
  IN  add_coeffs_loop(zero, t, sht_other, f.sht_scat_, 5, VZero(2))

Spectral_to_spectral(r, s, sht_other) ==
  /\ IsSpectral(s)
  /\ Call("Spectral::to_spectral", s, "none", r, <<sht_other>>)
  /\ LET f == fields[s]
     IN  Store(r, ScatteringDataFieldSpectral(f.f_grid_, f.t_grid_, f.lon_inc_,
                                              f.lat_inc_, sht_other),
               Spectral_to_spectral_data(f, Data(s), sht_other))
  /\ Returns(NoRet)

(***************************************************************************)
(* ScatteringDataFieldFullySpectral                                        *)
(***************************************************************************)
ScatteringDataFieldFullySpectral_in(gs, f_grid, t_grid, sht_inc, sht_scat) ==
  LET b == ScatteringDataFieldBase(Len(gs[f_grid]), Len(gs[t_grid]),
                                   get_n_longitudes(sht_inc), get_n_latitudes(sht_inc),
                                   get_n_longitudes(sht_scat), get_n_latitudes(sht_scat))
  IN  [fmt |-> "FullySpectral", n_freqs_ |-> b.n_freqs_, n_temps_ |-> b.n_temps_,
       n_lon_inc_ |-> b.n_lon_inc_, n_lat_inc_ |-> b.n_lat_inc_,
       n_lon_scat_ |-> b.n_lon_scat_, n_lat_scat_ |-> b.n_lat_scat_,
       type_ |-> b.type_,
       f_grid_ |-> f_grid, t_grid_ |-> t_grid, lon_inc_ |-> "null",
       lat_inc_ |-> "null", lon_scat_ |-> "null", lat_scat_ |-> "null",
       sht_inc_ |-> sht_inc, sht_scat_ |-> sht_scat, data_ |-> 0]

ScatteringDataFieldFullySpectral(f_grid, t_grid, sht_inc, sht_scat) ==
  ScatteringDataFieldFullySpectral_in(grids, f_grid, t_grid, sht_inc, sht_scat)

FullySpectralLike(f) ==
  ScatteringDataFieldFullySpectral(f.f_grid_, f.t_grid_, f.sht_inc_, f.sht_scat_)

FullySpectralDims(c, sht_inc, sht_scat, n_elements) ==
  GridSizes(c) \o <<get_n_spectral_coeffs_cmplx(sht_inc),
                    get_n_spectral_coeffs(sht_scat), n_elements>>

FullySpectralData(c, sht_inc, sht_scat, n_elements, p) ==
  LET d == FullySpectralDims(c, sht_inc, sht_scat, n_elements)
  IN  [dims |-> d,
       val |-> [i \in Indices(d) |-> <<Q(Pattern(p, i, 4)), Q(i[3] + i[5])>>]]

\* the constructor arguments of the program: the two grids, the two
\* transforms, the number of elements and the data
FullySpectralFixtures ==
  {<<<<"g02", "g02">>, "s0", "s1", 2, "elem">>,
   <<<<"g04", "g1">>, "s1", "s1", 1, "one">>,
   <<<<"g02", "g02">>, "s1", "s0", 2, "mix">>}

FullySpectral_construct(r, c, sht_inc, sht_scat, data) ==
  /\ Call("FullySpectral::FullySpectral", "none", "none", r, <<c, sht_inc, sht_scat, data>>)
  /\ Store(r, ScatteringDataFieldFullySpectral(c[1], c[2], sht_inc, sht_scat), data)
  /\ Returns(NoRet)

FullySpectral_construct_empty(r, c, sht_inc, sht_scat, n, g) ==
  /\ Call("FullySpectral::FullySpectral(empty)", "none", "none", r,
          <<c, sht_inc, sht_scat, n>>)
  /\ Store(r, ScatteringDataFieldFullySpectral(c[1], c[2], sht_inc, sht_scat),
           uninitialized(FullySpectralDims(c, sht_inc, sht_scat, n), g))
  /\ Returns(NoRet)

FullySpectral_shallow_copy(r, s) ==
  /\ IsFullySpectral(s) /\ r # s
  /\ Call("FullySpectral::FullySpectral(copy)", s, "none", r, <<>>)
  /\ LET fs == [fields EXCEPT ![r] = fields[s]]
     IN  fields' = fs /\ heap' = Release(fs, heap)
  /\ Returns(NoRet)

FullySpectral_copy(r, s) ==
  /\ IsFullySpectral(s)
  /\ Call("FullySpectral::copy", s, "none", r, <<>>)
  /\ Store(r, FullySpectralLike(fields[s]), Data(s))
  /\ Returns(NoRet)

\* get_submatrix of the two coefficient axes of t behind the leading
\* coordinates lead, at element e; an element past the end of t reads g
Submatrix(t, lead, e, g) ==
  LET n == Len(lead)
  IN  [c \in (0..(t.dims[n + 1] - 1)) \X (0..(t.dims[n + 2] - 1)) |->
         IF e < t.dims[n + 3] THEN t.val[lead \o <<c[1], c[2], e>>] ELSE g]

\* result = add_coeffs(...) for the elements below n_loop at every leading index
add_coeffs_matrix_loop(dst, src, f_l, f_r, n_lead, n_loop, g) ==
  [dst EXCEPT !.val = [i \in DOMAIN dst.val |->
     IF i[Len(i)] < n_loop
     THEN add_coeffs_matrix(f_l.sht_inc_, f_l.sht_scat_,
                            Submatrix(dst, Lead(i, n_lead), i[Len(i)], g),
                            f_r.sht_inc_, f_r.sht_scat_,
                            Submatrix(src, Lead(i, n_lead), i[Len(i)], g))
            [<<i[n_lead + 1], i[n_lead + 2]>>]
     ELSE dst.val[i]]]

\* data_->dimension(5) of the rank-5 tensor: a read past the end of its
\* dimensions, which yields no elements, the right number, or too many
LoopBounds(n_elements) == {0, n_elements, n_elements + 1}

\* writes past the end of a tensor land in the tensors next to it
Corrupt(h, own, g) ==
  [j \in TensorIds |->
     IF j # own /\ h[j] # Free
     THEN [h[j] EXCEPT !.val = [i \in DOMAIN h[j].val |->
                                  IF Lin(h[j].dims, i) = 0 THEN g ELSE h[j].val[i]]]
     ELSE h[j]]

FullySpectral_set_data_result(t, data_index, other, f_l, f_r, n_loop, g) ==
  put_subtensor(t, data_index,
                add_coeffs_matrix_loop(tensor_index(t, data_index),
                                       tensor_index(other, <<0, 0>>),
                                       f_l, f_r, 0, n_loop, g))

FullySpectral_set_data(s, frequency_index, temperature_index, o) ==
  /\ IsFullySpectral(s) /\ IsFullySpectral(o)
  /\ frequency_index \in 0..(Data(s).dims[1] - 1)
  /\ temperature_index \in 0..(Data(s).dims[2] - 1)
  /\ Call("FullySpectral::set_data", s, o, "none", <<frequency_index, temperature_index>>)
  /\ \E n_loop \in LoopBounds(Data(s).dims[5]), g \in Garbage(2) :
       LET t == FullySpectral_set_data_result(Data(s), <<frequency_index, temperature_index>>,
                                              Data(o), fields[s], fields[o], n_loop, g)
       IN  IF n_loop <= Data(s).dims[5] /\ n_loop <= Data(o).dims[5]
           THEN Write(s, t) /\ Returns(NoRet)
           ELSE \/ Fails("index_out_of_range")
                \/ /\ heap' = Corrupt([heap EXCEPT ![fields[s].data_] = t],
                                      fields[s].data_, g)
                   /\ UNCHANGED fields
                   /\ Returns(NoRet)

FullySpectral_interpolate_frequency_field(f, frequencies) ==
  ScatteringDataFieldFullySpectral(frequencies, f.t_grid_, f.sht_inc_, f.sht_scat_)

FullySpectral_interpolate_frequency(r, s, frequencies) ==
  /\ IsFullySpectral(s)
  /\ Call("FullySpectral::interpolate_frequency", s, "none", r, <<frequencies>>)
  /\ LET regridder == RegularRegridder(<<0>>, <<G(fields[s].f_grid_)>>,
                                       <<G(frequencies)>>, DefaultExtrapolate)
     IN  IF regrid_fails(regridder) THEN Fails("out_of_range")
         ELSE /\ Store(r, FullySpectral_interpolate_frequency_field(fields[s], frequencies),
                       regrid(regridder, Data(s)))
              /\ Returns(NoRet)

FullySpectral_interpolate_temperature_regridder(f, temperatures, extrapolate) ==
  RegularRegridder(<<1>>, <<G(f.t_grid_)>>, <<G(temperatures)>>, extrapolate)

FullySpectral_interpolate_temperature(r, s, temperatures, extrapolate) ==
  /\ IsFullySpectral(s)
  /\ Call("FullySpectral::interpolate_temperature", s, "none", r,
          <<temperatures, extrapolate>>)
  /\ LET regridder == FullySpectral_interpolate_temperature_regridder(fields[s],
                                                                      temperatures, extrapolate)
         f == fields[s]
     IN  IF regrid_fails(regridder) THEN Fails("out_of_range")
         ELSE /\ Store(r, ScatteringDataFieldFullySpectral(f.f_grid_, temperatures,
                                                           f.sht_inc_, f.sht_scat_),
                       regrid(regridder, Data(s)))
              /\ Returns(NoRet)

FullySpectral_regridder(f, c) ==
  RegularRegridder(<<0, 1>>, <<G(f.f_grid_), G(f.t_grid_)>>, <<G(c[1]), G(c[2])>>,
                   DefaultExtrapolate)

FullySpectral_regrid(r, s, c) ==
  /\ IsFullySpectral(s)
  /\ Call("FullySpectral::regrid", s, "none", r, <<c>>)
  /\ IF regrid_fails(FullySpectral_regridder(fields[s], c)) THEN Fails("out_of_range")
     ELSE /\ Store(r, ScatteringDataFieldFullySpectral(c[1], c[2], fields[s].sht_inc_,
                                                       fields[s].sht_scat_),
                   regrid(FullySpectral_regridder(fields[s], c), Data(s)))
          /\ Returns(NoRet)

FullySpectral_add_assign_fails(f, other) ==
  regrid_fails(FullySpectral_regridder(other, <<f.f_grid_, f.t_grid_>>))

FullySpectral_add_assign_result(f, t, other, t_other, g) ==
  LET regridded == regrid(FullySpectral_regridder(other, <<f.f_grid_, f.t_grid_>>), t_other)
  IN  add_coeffs_matrix_loop(t, regridded, f, other, 2, t.dims[5], g)

FullySpectral_operator_add_assign(s, o) ==
  /\ IsFullySpectral(s) /\ IsFullySpectral(o)
  /\ Call("FullySpectral::operator+=", s, o, "none", <<>>)
  /\ IF FullySpectral_add_assign_fails(fields[s], fields[o]) THEN Fails("out_of_range")
     ELSE IF Data(o).dims[5] >= Data(s).dims[5]
     THEN LET t == FullySpectral_add_assign_result(fields[s], Data(s), fields[o], Data(o),
                                                   VZero(2))
          IN  /\ Write(s, t)
              /\ Returns([kind |-> "reference", self |-> s])
     ELSE \/ Fails("index_out_of_range")
          \/ \E g \in Garbage(2) :
               /\ Write(s, FullySpectral_add_assign_result(fields[s], Data(s), fields[o],
                                                           Data(o), g))
               /\ Returns([kind |-> "reference", self |-> s])

FullySpectral_operator_add(r, s, o) ==
  /\ IsFullySpectral(s) /\ IsFullySpectral(o)
  /\ Call("FullySpectral::operator+", s, o, r, <<>>)
  /\ IF FullySpectral_add_assign_fails(fields[s], fields[o]) THEN Fails("out_of_range")
     ELSE IF Data(o).dims[5] >= Data(s).dims[5]
     THEN LET t == FullySpectral_add_assign_result(fields[s], Data(s), fields[o], Data(o),
                                                   VZero(2))
          IN  /\ Store(r, FullySpectralLike(fields[s]), t)
              /\ Returns(NoRet)
     ELSE \/ Fails("index_out_of_range")
          \/ \E g \in Garbage(2) :
               /\ Store(r, FullySpectralLike(fields[s]),
                        FullySpectral_add_assign_result(fields[s], Data(s), fields[o],
                                                        Data(o), g))
               /\ Returns(NoRet)

FullySpectral_operator_mul_assign(s, c) ==
  /\ IsFullySpectral(s)
  /\ Call("FullySpectral::operator*=", s, "none", "none", <<c>>)
  /\ LET t == scale(c, Data(s)) IN Write(s, t)
  /\ Returns([kind |-> "reference", self |-> s])

FullySpectral_operator_mul(r, s, c) ==
  /\ IsFullySpectral(s)
  /\ Call("FullySpectral::operator*", s, "none", r, <<c>>)
  /\ LET t == scale(c, Data(s)) IN Store(r, FullySpectralLike(fields[s]), t)
  /\ Returns(NoRet)

FullySpectral_set_number_of_scattering_coeffs(s, n) ==
  /\ IsFullySpectral(s)
  /\ Call("FullySpectral::set_number_of_scattering_coeffs", s, "none", "none", <<n>>)
  /\ IF Data(s).dims[5] = n THEN UNCHANGED <<fields, heap>>
     ELSE \E g \in Garbage(2) :
            Store(s, fields[s], set_number_of_scattering_coeffs_data(Data(s), n, g))
  /\ Returns(NoRet)

(***************************************************************************)
(* The conversions between the formats.  A transform is applied to data on *)
(* the spatial grid it was made for.                                       *)
(***************************************************************************)
Cplx(v) == IF Len(v) = 1 THEN <<v[1], QZero>> ELSE v

Gridded_to_spectral_data(t, sht) ==
  LET d == <<t.dims[1], t.dims[2], t.dims[3], t.dims[4], get_n_spectral_coeffs(sht),
             t.dims[7]>>
  IN  [dims |-> d,
       val |-> [i \in Indices(d) |->
                 Cplx(transform(sht, Gridded_submatrix(t, <<i[1], i[2], i[3], i[4], i[6]>>))
                        [i[5] + 1])]]

\* sht::SHT::get_params(n_lon, n_lat): the highest degree and order that
\* fulfil the anti-aliasing conditions on a grid of this size, with which
\* the coefficients represent every field on the grid
get_params(n_lon, n_lat) == <<n_lat - 1, (n_lon - 1) \div 2, n_lon, n_lat>>

\* to_spectral(): to_spectral(l_max, m_max) with the first two of the
\* parameters get_sht_scat_params() returns, which makes the transform
Gridded_to_spectral_default(r, s) ==
  /\ IsGridded(s)
  /\ LET f == fields[s]
         sht_params == get_params(f.n_lon_scat_, f.n_lat_scat_)
         l_max == sht_params[1]
         m_max == sht_params[2]
     IN  /\ Makeable(l_max, m_max, f.n_lon_scat_, f.n_lat_scat_) # {}
         /\ LET sht == MakeSht(l_max, m_max, f.n_lon_scat_, f.n_lat_scat_)
            IN  /\ CallMake("Gridded::to_spectral()", s, "none", r, <<>>, sht)
                /\ Store(r, ScatteringDataFieldSpectral(f.f_grid_, f.t_grid_, f.lon_inc_,
                                                        f.lat_inc_, sht),
                         Gridded_to_spectral_data(Data(s), sht))
  /\ Returns(NoRet)

Gridded_to_spectral(r, s, sht) ==
  /\ IsGridded(s)
  /\ fields[s].n_lon_scat_ = get_n_longitudes(sht)
  /\ fields[s].n_lat_scat_ = get_n_latitudes(sht)
  /\ Call("Gridded::to_spectral", s, "none", r, <<sht>>)
  /\ LET f == fields[s]
     IN  Store(r, ScatteringDataFieldSpectral(f.f_grid_, f.t_grid_, f.lon_inc_,
                                              f.lat_inc_, sht),
               Gridded_to_spectral_data(Data(s), sht))
  /\ Returns(NoRet)

\* mutant: the synthesized latitudes are written in reverse
Spectral_to_gridded_data_reversed(t, sht) ==
  LET d == <<t.dims[1], t.dims[2], t.dims[3], t.dims[4], get_n_longitudes(sht),
             get_n_latitudes(sht), t.dims[6]>>
  IN  [dims |-> d,
       val |-> [i \in Indices(d) |->
                 <<VReal(synthesize(sht,
                           Subvector(t, <<i[1], i[2], i[3], i[4], 0, i[7]>>, 5,
                                     t.dims[5], VZero(2)))[<<i[5], d[6] - 1 - i[6]>>])>>]]

Spectral_to_gridded_data(t, sht) ==
  LET d == <<t.dims[1], t.dims[2], t.dims[3], t.dims[4], get_n_longitudes(sht),
             get_n_latitudes(sht), t.dims[6]>>
  IN  [dims |-> d,
       val |-> [i \in Indices(d) |->
                 <<VReal(synthesize(sht,
                           Subvector(t, <<i[1], i[2], i[3], i[4], 0, i[7]>>, 5,
                                     t.dims[5], VZero(2)))[<<i[5], i[6]>>])>>]]

Spectral_to_gridded(r, s) ==
  /\ IsSpectral(s)
  /\ CanAllocate
  /\ CallAlloc("Spectral::to_gridded", s, "none", r, <<>>)
  /\ LET f == fields[s]
         lon_scat == FreshGridIds[FirstFree]
         lat_scat == FreshGridIds[FirstFree + 1]
         gs == [grids EXCEPT ![lon_scat] = get_longitude_grid(f.sht_scat_),
                             ![lat_scat] = get_latitude_grid(f.sht_scat_)]
     IN  /\ grids' = gs
         /\ Store(r, ScatteringDataFieldGridded_in(gs, f.f_grid_, f.t_grid_, f.lon_inc_,
                                                   f.lat_inc_, lon_scat, lat_scat),
                  Spectral_to_gridded_data(Data(s), f.sht_scat_))
  /\ Returns(NoRet)

Spectral_to_fully_spectral_data(t, sht) ==
  LET d == <<t.dims[1], t.dims[2], get_n_spectral_coeffs_cmplx(sht), t.dims[5], t.dims[6]>>
  IN  [dims |-> d,
       val |-> [i \in Indices(d) |->
                 transform_cmplx(sht,
                   [c \in (0..(t.dims[3] - 1)) \X (0..(t.dims[4] - 1)) |->
                      t.val[<<i[1], i[2], c[1], c[2], i[4], i[5]>>]])[i[3] + 1]]]

\* to_fully_spectral(): to_fully_spectral(l_max, m_max) with the first two
\* of the parameters get_sht_inc_params() returns
Spectral_to_fully_spectral_default(r, s) ==
  /\ IsSpectral(s)
  /\ LET f == fields[s]
         sht_params == get_params(f.n_lon_inc_, f.n_lat_inc_)
         l_max == sht_params[1]
         m_max == sht_params[2]
     IN  /\ Makeable(l_max, m_max, f.n_lon_inc_, f.n_lat_inc_) # {}
         /\ LET sht == MakeSht(l_max, m_max, f.n_lon_inc_, f.n_lat_inc_)
            IN  /\ CallMake("Spectral::to_fully_spectral()", s, "none", r, <<>>, sht)
                /\ Store(r, ScatteringDataFieldFullySpectral(f.f_grid_, f.t_grid_, sht,
                                                             f.sht_scat_),
                         Spectral_to_fully_spectral_data(Data(s), sht))
  /\ Returns(NoRet)

Spectral_to_fully_spectral(r, s, sht) ==
  /\ IsSpectral(s)
  /\ fields[s].n_lon_inc_ = get_n_longitudes(sht)
  /\ fields[s].n_lat_inc_ = get_n_latitudes(sht)
  /\ Call("Spectral::to_fully_spectral", s, "none", r, <<sht>>)
  /\ LET f == fields[s]
     IN  Store(r, ScatteringDataFieldFullySpectral(f.f_grid_, f.t_grid_, sht, f.sht_scat_),
               Spectral_to_fully_spectral_data(Data(s), sht))
  /\ Returns(NoRet)

\* mutant: the synthesized incoming latitudes are written in reverse
FullySpectral_to_spectral_data_reversed(t, sht_inc) ==
  LET d == <<t.dims[1], t.dims[2], get_n_longitudes(sht_inc), get_n_latitudes(sht_inc),
             t.dims[4], t.dims[5]>>
  IN  [dims |-> d,
       val |-> [i \in Indices(d) |->
                 synthesize_cmplx(sht_inc,
                   [k \in 1..t.dims[3] |-> t.val[<<i[1], i[2], k - 1, i[5], i[6]>>]])
                   [<<i[3], d[4] - 1 - i[4]>>]]]

FullySpectral_to_spectral_data(t, sht_inc) ==
  LET d == <<t.dims[1], t.dims[2], get_n_longitudes(sht_inc), get_n_latitudes(sht_inc),
             t.dims[4], t.dims[5]>>
  IN  [dims |-> d,
       val |-> [i \in Indices(d) |->
                 synthesize_cmplx(sht_inc,
                   [k \in 1..t.dims[3] |-> t.val[<<i[1], i[2], k - 1, i[5], i[6]>>]])
                   [<<i[3], i[4]>>]]]

\* to_spectral(): onto the spatial grid of the incoming transform
FullySpectral_to_spectral(r, s) ==
  /\ IsFullySpectral(s)
  /\ CanAllocate
  /\ CallAlloc("FullySpectral::to_spectral", s, "none", r, <<>>)
  /\ LET f == fields[s]
         lon_inc == FreshGridIds[FirstFree]
         lat_inc == FreshGridIds[FirstFree + 1]
         gs == [grids EXCEPT ![lon_inc] = get_longitude_grid(f.sht_inc_),
                             ![lat_inc] = get_latitude_grid(f.sht_inc_)]
     IN  /\ grids' = gs
         /\ Store(r, ScatteringDataFieldSpectral_in(gs, f.f_grid_, f.t_grid_, lon_inc,
                                                    lat_inc, f.sht_scat_),
                  FullySpectral_to_spectral_data(Data(s), f.sht_inc_))
  /\ Returns(NoRet)

\* to_spectral(sht_other): a zero field of the new scattering truncation,
\* += *this, then to_spectral()
FullySpectral_to_spectral_sht_data(f, t, sht_other) ==
  LET d == [t.dims EXCEPT ![4] = get_n_spectral_coeffs(sht_other)]
      zero == [dims |-> d, val |-> [i \in Indices(d) |-> VZero(2)]]
      result == [f EXCEPT !.sht_scat_ = sht_other]
  IN  FullySpectral_to_spectral_data(
        add_coeffs_matrix_loop(zero, t, result, f, 2, d[5], VZero(2)), f.sht_inc_)

FullySpectral_to_spectral_sht(r, s, sht_other) ==
  /\ IsFullySpectral(s)
  /\ CanAllocate
  /\ CallAlloc("FullySpectral::to_spectral(sht)", s, "none", r, <<sht_other>>)
  /\ LET f == fields[s]
         lon_inc == FreshGridIds[FirstFree]
         lat_inc == FreshGridIds[FirstFree + 1]
         gs == [grids EXCEPT ![lon_inc] = get_longitude_grid(f.sht_inc_),
                             ![lat_inc] = get_latitude_grid(f.sht_inc_)]
     IN  /\ grids' = gs
         /\ Store(r, ScatteringDataFieldSpectral_in(gs, f.f_grid_, f.t_grid_, lon_inc,
                                                    lat_inc, sht_other),
                  FullySpectral_to_spectral_sht_data(f, Data(s), sht_other))
  /\ Returns(NoRet)

(***************************************************************************)
(* The program: two fields are constructed and then used in calls, in any  *)
(* order.                                                                  *)
(***************************************************************************)
FreqTargets == {"g1", "g3", "g02"}
TempTargets == {"g1", "g04"}
NormValues == {Q(16), Q(8)}
ElementCounts == {1, 2}
\* the variable a later constructor call initialises
NewFieldIds == {"b"}

\* the sizes get_n_lon_inc(), ..., get_n_lat_scat() of the grids a field holds
SizesHeld(f) ==
  CASE f.fmt = "Gridded" ->
         <<Size(f.lon_inc_), Size(f.lat_inc_), Size(f.lon_scat_), Size(f.lat_scat_)>>
    [] f.fmt = "Spectral" ->
         <<Size(f.lon_inc_), Size(f.lat_inc_), get_n_longitudes(f.sht_scat_),
           get_n_latitudes(f.sht_scat_)>>
    [] f.fmt = "FullySpectral" ->
         <<get_n_longitudes(f.sht_inc_), get_n_latitudes(f.sht_inc_),
           get_n_longitudes(f.sht_scat_), get_n_latitudes(f.sht_scat_)>>

\* the axis lengths the grids and transforms of a field ask for
ShapeHeld(f) ==
  CASE f.fmt = "Gridded" ->
         <<Size(f.f_grid_), Size(f.t_grid_), Size(f.lon_inc_), Size(f.lat_inc_),
           Size(f.lon_scat_), Size(f.lat_scat_)>>
    [] f.fmt = "Spectral" ->
         <<Size(f.f_grid_), Size(f.t_grid_), Size(f.lon_inc_), Size(f.lat_inc_),
           get_n_spectral_coeffs(f.sht_scat_)>>
    [] f.fmt = "FullySpectral" ->
         <<Size(f.f_grid_), Size(f.t_grid_), get_n_spectral_coeffs_cmplx(f.sht_inc_),
           get_n_spectral_coeffs(f.sht_scat_)>>

\* the fields the program calls operations on: the operations index the
\* tensor by the sizes of the grids, and the program calls them on fields
\* whose tensor has these sizes
Conforms(f, t) ==
  /\ Len(t.dims) = Len(ShapeHeld(f)) + 1
  /\ \A k \in 1..Len(ShapeHeld(f)) : t.dims[k] = ShapeHeld(f)[k]

Operands == {s \in FieldIds : Live(s) /\ Conforms(fields[s], Data(s))}

NoOp == [name |-> "none", self |-> "none", other |-> "none", res |-> "none",
         args |-> <<>>]

\* the fields after construction: a is constructed; b is constructed with
\* the same format, is a shallow copy of a, or is not there
Constructed ==
  {[f |-> ScatteringDataFieldGridded(x[1][1], x[1][2], x[1][3], x[1][4], x[1][5], x[1][6]),
    t |-> GriddedData(x[1], x[2], x[3])] : x \in GriddedFixtures}
  \cup {[f |-> ScatteringDataFieldSpectral(x[1][1], x[1][2], x[1][3], x[1][4], x[2]),
         t |-> SpectralData(x[1], x[2], x[3], x[4])] : x \in SpectralFixtures}
  \cup {[f |-> ScatteringDataFieldFullySpectral(x[1][1], x[1][2], x[2], x[3]),
         t |-> FullySpectralData(x[1], x[2], x[3], x[4], x[5])] : x \in FullySpectralFixtures}

Init ==
  /\ grids = GridPool
  /\ shts = ShtPool
  /\ \E a \in Constructed :
       \/ \E b \in {c \in Constructed : c.f.fmt = a.f.fmt} :
            /\ fields = [s \in FieldIds |->
                           IF s = "a" THEN [a.f EXCEPT !.data_ = 1]
                           ELSE [b.f EXCEPT !.data_ = 2]]
            /\ heap = [i \in TensorIds |-> IF i = 1 THEN a.t ELSE b.t]
       \/ /\ fields = [s \in FieldIds |-> [a.f EXCEPT !.data_ = 1]]
          /\ heap = [i \in TensorIds |-> IF i = 1 THEN a.t ELSE Free]
       \/ /\ fields = [s \in FieldIds |->
                         IF s = "a" THEN [a.f EXCEPT !.data_ = 1] ELSE NoField]
          /\ heap = [i \in TensorIds |-> IF i = 1 THEN a.t ELSE Free]
  /\ op = NoOp
  /\ err = "none"
  /\ ret = NoRet
  /\ pre = [fields |-> fields, heap |-> heap, grids |-> grids, shts |-> shts]
  /\ loop = NoLoop
  /\ scattering_data = NoScatteringData
  /\ quadrature = NoQuadrature
  /\ calls = 0

GriddedNext ==
  \/ \E r \in NewFieldIds, x, d \in GriddedFixtures :
       Gridded_construct(r, x[1], GriddedData(d[1], d[2], d[3]))
  \/ \E r \in NewFieldIds, x \in GriddedFixtures, g \in Garbage(1) :
       Gridded_construct_empty(r, x[1], x[2], g)
  \/ \E r \in FieldIds, s \in Operands : Gridded_shallow_copy(r, s)
  \/ \E r \in FieldIds, s \in Operands : Gridded_copy(r, s)
  \/ \E s, o \in Operands, fi, ti \in 0..1 : Gridded_set_data(s, fi, ti, o)
  \/ \E r \in FieldIds, s \in Operands, g \in FreqTargets : Gridded_interpolate_frequency(r, s, g)
  \/ \E r \in FieldIds, s \in Operands, g \in TempTargets, e \in BOOLEAN :
       Gridded_interpolate_temperature(r, s, g, e)
  \/ \E r \in FieldIds, s \in Operands, c \in GriddedGrids :
       Gridded_interpolate_angles(r, s, c[3], c[4], c[5], c[6])
  \/ \E r \in FieldIds, s \in Operands, c \in {<<x[5], x[6]>> : x \in GriddedGrids} :
       Gridded_downsample_scattering_angles(r, s, c[1], c[2])
  \/ \E r \in FieldIds, s \in Operands, c \in GriddedGrids : Gridded_regrid(r, s, c)
  \/ \E s \in Operands : Gridded_integrate_scattering_angles(s)
  \/ \E s \in Operands, v \in NormValues : Gridded_normalize(s, v)
  \/ \E s, o \in Operands : Gridded_operator_add_assign(s, o)
  \/ \E r \in FieldIds, s, o \in Operands : Gridded_operator_add(r, s, o)
  \/ \E s \in Operands, c \in ScaleFactors : Gridded_operator_mul_assign(s, c)
  \/ \E r \in FieldIds, s \in Operands, c \in ScaleFactors : Gridded_operator_mul(r, s, c)
  \/ \E s \in Operands, n \in ElementCounts : Gridded_set_number_of_scattering_coeffs(s, n)
  \/ \E r \in FieldIds, s \in Operands, sht \in ShtIds : Gridded_to_spectral(r, s, sht)
  \/ \E r \in FieldIds, s \in Operands : Gridded_to_spectral_default(r, s)

SpectralNext ==
  \/ \E r \in NewFieldIds, x, d \in SpectralFixtures :
       Spectral_construct(r, x[1], x[2], SpectralData(d[1], d[2], d[3], d[4]))
  \/ \E r \in NewFieldIds, x \in SpectralFixtures, g \in Garbage(2) :
       Spectral_construct_empty(r, x[1], x[2], x[3], g)
  \/ \E r \in FieldIds, s \in Operands : Spectral_shallow_copy(r, s)
  \/ \E r \in FieldIds, s \in Operands : Spectral_copy(r, s)
  \/ \E s, o \in Operands, fi, ti \in 0..1 : Spectral_set_data(s, fi, ti, o)
  \/ \E r \in FieldIds, s \in Operands, g \in FreqTargets : Spectral_interpolate_frequency(r, s, g)
  \/ \E r \in FieldIds, s \in Operands, g \in TempTargets, e \in BOOLEAN :
       Spectral_interpolate_temperature(r, s, g, e)
  \/ \E r \in FieldIds, s \in Operands, c \in SpectralGrids :
       Spectral_interpolate_angles(r, s, c[3], c[4])
  \/ \E r \in FieldIds, s \in Operands, c \in SpectralGrids : Spectral_regrid(r, s, c)
  \/ \E s \in Operands : Spectral_integrate_scattering_angles(s)
  \/ \E s \in Operands, v \in NormValues : Spectral_normalize(s, v)
  \/ \E s, o \in Operands : Spectral_operator_add_assign(s, o)
  \/ \E r \in FieldIds, s, o \in Operands : Spectral_operator_add(r, s, o)
  \/ \E s \in Operands, c \in ScaleFactors : Spectral_operator_mul_assign(s, c)
  \/ \E r \in FieldIds, s \in Operands, c \in ScaleFactors : Spectral_operator_mul(r, s, c)
  \/ \E s \in Operands, n \in ElementCounts : Spectral_set_number_of_scattering_coeffs(s, n)
  \/ \E r \in FieldIds, s \in Operands, sht \in ShtIds : Spectral_to_spectral(r, s, sht)
  \/ \E r \in FieldIds, s \in Operands : Spectral_to_gridded(r, s)
  \/ \E r \in FieldIds, s \in Operands, sht \in ShtIds : Spectral_to_fully_spectral(r, s, sht)
  \/ \E r \in FieldIds, s \in Operands : Spectral_to_fully_spectral_default(r, s)

FullySpectralNext ==
  \/ \E r \in NewFieldIds, x, d \in FullySpectralFixtures :
       FullySpectral_construct(r, x[1], x[2], x[3],
                               FullySpectralData(d[1], d[2], d[3], d[4], d[5]))
  \/ \E r \in NewFieldIds, x \in FullySpectralFixtures, g \in Garbage(2) :
       FullySpectral_construct_empty(r, x[1], x[2], x[3], x[4], g)
  \/ \E r \in FieldIds, s \in Operands : FullySpectral_shallow_copy(r, s)
  \/ \E r \in FieldIds, s \in Operands : FullySpectral_copy(r, s)
  \/ \E s, o \in Operands, fi, ti \in 0..1 : FullySpectral_set_data(s, fi, ti, o)
  \/ \E r \in FieldIds, s \in Operands, g \in FreqTargets : FullySpectral_interpolate_frequency(r, s, g)
  \/ \E r \in FieldIds, s \in Operands, g \in TempTargets, e \in BOOLEAN :
       FullySpectral_interpolate_temperature(r, s, g, e)
  \/ \E r \in FieldIds, s \in Operands, x \in FullySpectralFixtures : FullySpectral_regrid(r, s, x[1])
  \/ \E s, o \in Operands : FullySpectral_operator_add_assign(s, o)
  \/ \E r \in FieldIds, s, o \in Operands : FullySpectral_operator_add(r, s, o)
  \/ \E s \in Operands, c \in ScaleFactors : FullySpectral_operator_mul_assign(s, c)
  \/ \E r \in FieldIds, s \in Operands, c \in ScaleFactors : FullySpectral_operator_mul(r, s, c)
  \/ \E s \in Operands, n \in ElementCounts :
       FullySpectral_set_number_of_scattering_coeffs(s, n)
  \/ \E r \in FieldIds, s \in Operands : FullySpectral_to_spectral(r, s)
  \/ \E r \in FieldIds, s \in Operands, sht \in ShtIds : FullySpectral_to_spectral_sht(r, s, sht)

Next == GriddedNext \/ SpectralNext \/ FullySpectralNext

Spec == Init /\ [][Next]_vars

(***************************************************************************)
(* Conversions in a row: a program of TripLength calls that converts a     *)
(* field and converts the result again.                                    *)
(***************************************************************************)
TripLength == 2

\* a Spectral field whose data differ between the incoming latitudes
TripFixtures == {<<<<"g0", "g0", "g0", "g02">>, "s1", 2, "inc">>}

TripConstructed ==
  {[f |-> ScatteringDataFieldSpectral(x[1][1], x[1][2], x[1][3], x[1][4], x[2]),
    t |-> SpectralData(x[1], x[2], x[3], x[4])] : x \in TripFixtures}

InitTrip ==
  /\ grids = GridPool
  /\ shts = ShtPool
  /\ \E a \in Constructed \cup TripConstructed :
       \/ \E b \in Constructed :
            /\ fields = [s \in FieldIds |->
                           IF s = "a" THEN [a.f EXCEPT !.data_ = 1]
                           ELSE [b.f EXCEPT !.data_ = 2]]
            /\ heap = [i \in TensorIds |-> IF i = 1 THEN a.t ELSE b.t]
       \/ /\ fields = [s \in FieldIds |->
                         IF s = "a" THEN [a.f EXCEPT !.data_ = 1] ELSE NoField]
          /\ heap = [i \in TensorIds |-> IF i = 1 THEN a.t ELSE Free]
  /\ op = NoOp
  /\ err = "none"
  /\ ret = NoRet
  /\ pre = [fields |-> fields, heap |-> heap, grids |-> grids, shts |-> shts]
  /\ loop = NoLoop
  /\ scattering_data = NoScatteringData
  /\ quadrature = NoQuadrature
  /\ calls = MaxCalls - TripLength

NextTrip ==
  \/ \E r \in FieldIds, s \in Operands, sht \in ShtIds : Gridded_to_spectral(r, s, sht)
  \/ \E r \in FieldIds, s \in Operands : Gridded_to_spectral_default(r, s)
  \/ \E r \in FieldIds, s \in Operands : Spectral_to_gridded(r, s)
  \/ \E r \in FieldIds, s \in Operands, sht \in ShtIds : Spectral_to_fully_spectral(r, s, sht)
  \/ \E r \in FieldIds, s \in Operands : Spectral_to_fully_spectral_default(r, s)
  \/ \E r \in FieldIds, s \in Operands : FullySpectral_to_spectral(r, s)

SpecTrip == InitTrip /\ [][NextTrip]_vars

(***************************************************************************)
(* The coefficient domain: Spectral fields on transforms of different      *)
(* truncations, added to each other and brought to another truncation,     *)
(* in a program of TripLength calls.                                       *)
(***************************************************************************)
CoeffFixtures ==
  {<<<<"g02", "g0", "g0", "g0">>, "c1", 1, "elem">>,
   <<<<"g02", "g0", "g0", "g0">>, "c2", 1, "elem">>,
   <<<<"g0", "g0", "g0", "g0">>, "c3", 2, "elem">>,
   <<<<"g0", "g0", "g0", "g0">>, "s1", 1, "one">>}

CoeffConstructed ==
  {[f |-> ScatteringDataFieldSpectral(x[1][1], x[1][2], x[1][3], x[1][4], x[2]),
    t |-> SpectralData(x[1], x[2], x[3], x[4])] : x \in CoeffFixtures}

InitCoeffs ==
  /\ grids = GridPool
  /\ shts = ShtPool
  /\ \E a \in CoeffConstructed :
       \/ \E b \in CoeffConstructed :
            /\ fields = [s \in FieldIds |->
                           IF s = "a" THEN [a.f EXCEPT !.data_ = 1]
                           ELSE [b.f EXCEPT !.data_ = 2]]
            /\ heap = [i \in TensorIds |-> IF i = 1 THEN a.t ELSE b.t]
       \/ /\ fields = [s \in FieldIds |->
                         IF s = "a" THEN [a.f EXCEPT !.data_ = 1] ELSE NoField]
          /\ heap = [i \in TensorIds |-> IF i = 1 THEN a.t ELSE Free]
  /\ op = NoOp
  /\ err = "none"
  /\ ret = NoRet
  /\ pre = [fields |-> fields, heap |-> heap, grids |-> grids, shts |-> shts]
  /\ loop = NoLoop
  /\ scattering_data = NoScatteringData
  /\ quadrature = NoQuadrature
  /\ calls = MaxCalls - TripLength

NextCoeffs ==
  \/ \E s, o \in Operands, fi, ti \in 0..1 : Spectral_set_data(s, fi, ti, o)
  \/ \E s, o \in Operands : Spectral_operator_add_assign(s, o)
  \/ \E r \in FieldIds, s \in Operands, sht \in CoeffShtIds \cup ShtIds :
       Spectral_to_spectral(r, s, sht)

SpecCoeffs == InitCoeffs /\ [][NextCoeffs]_vars

(***************************************************************************)
(* Calls on the value operator+= and operator*= return, as in              *)
(* (a += b).set_number_of_scattering_coeffs(n).  A reference is the        *)
(* receiver; a copy is a new object made by the defaulted copy             *)
(* constructor, which holds the same data_ pointer until it is given       *)
(* another one.                                                            *)
(***************************************************************************)
Returned_set_number_of_scattering_coeffs(n) ==
  /\ ret.kind \in {"copy", "reference"}
  /\ Call("returned.set_number_of_scattering_coeffs", ret.self, "none", "none",
          <<n, ret.kind>>)
  /\ LET s == ret.self
         t == Data(s)
     IN  IF t.dims[Len(t.dims)] = n \/ ret.kind = "copy"
         THEN UNCHANGED <<fields, heap>>
         ELSE \E g \in Garbage(Len(t.val[CHOOSE i \in DOMAIN t.val : TRUE])) :
                Store(s, fields[s], set_number_of_scattering_coeffs_data(t, n, g))
  /\ Returns(NoRet)

Returned_operator_mul_assign(c) ==
  /\ ret.kind \in {"copy", "reference"}
  /\ Call("returned.operator*=", ret.self, "none", "none", <<c, ret.kind>>)
  /\ Write(ret.self, scale(c, Data(ret.self)))
  /\ Returns(ret)

NextChain ==
  \/ \E s, o \in Operands : Gridded_operator_add_assign(s, o)
  \/ \E s, o \in Operands : Spectral_operator_add_assign(s, o)
  \/ \E s, o \in Operands : FullySpectral_operator_add_assign(s, o)
  \/ \E s \in Operands, c \in ScaleFactors : Gridded_operator_mul_assign(s, c)
  \/ \E s \in Operands, c \in ScaleFactors : Spectral_operator_mul_assign(s, c)
  \/ \E s \in Operands, c \in ScaleFactors : FullySpectral_operator_mul_assign(s, c)
  \/ \E n \in ElementCounts : Returned_set_number_of_scattering_coeffs(n)
  \/ \E c \in ScaleFactors : Returned_operator_mul_assign(c)

SpecChain == InitTrip /\ [][NextChain]_vars

(***************************************************************************)
(* Deep copies and what is done to them: a program of TripLength calls     *)
(* that makes b from a with copy(), operator+ or operator* and changes     *)
(* one of the two.                                                         *)
(***************************************************************************)
InitCopy ==
  /\ grids = GridPool
  /\ shts = ShtPool
  /\ \E a \in Constructed :
       /\ fields = [s \in FieldIds |->
                      IF s = "a" THEN [a.f EXCEPT !.data_ = 1] ELSE NoField]
       /\ heap = [i \in TensorIds |-> IF i = 1 THEN a.t ELSE Free]
  /\ op = NoOp
  /\ err = "none"
  /\ ret = NoRet
  /\ pre = [fields |-> fields, heap |-> heap, grids |-> grids, shts |-> shts]
  /\ loop = NoLoop
  /\ scattering_data = NoScatteringData
  /\ quadrature = NoQuadrature
  /\ calls = MaxCalls - TripLength

NextCopy ==
  \/ \E r \in NewFieldIds, s \in Operands : Gridded_copy(r, s)
  \/ \E r \in NewFieldIds, s \in Operands : Spectral_copy(r, s)
  \/ \E r \in NewFieldIds, s \in Operands : FullySpectral_copy(r, s)
  \/ \E r \in NewFieldIds, s, o \in Operands : Gridded_operator_add(r, s, o)
  \/ \E r \in NewFieldIds, s, o \in Operands : Spectral_operator_add(r, s, o)
  \/ \E r \in NewFieldIds, s, o \in Operands : FullySpectral_operator_add(r, s, o)
  \/ \E r \in NewFieldIds, s \in Operands, c \in ScaleFactors : Gridded_operator_mul(r, s, c)
  \/ \E r \in NewFieldIds, s \in Operands, c \in ScaleFactors : Spectral_operator_mul(r, s, c)
  \/ \E r \in NewFieldIds, s \in Operands, c \in ScaleFactors :
       FullySpectral_operator_mul(r, s, c)
  \/ \E s, o \in Operands, fi, ti \in 0..1 : Gridded_set_data(s, fi, ti, o)
  \/ \E s, o \in Operands, fi, ti \in 0..1 : Spectral_set_data(s, fi, ti, o)
  \/ \E s, o \in Operands, fi, ti \in 0..1 : FullySpectral_set_data(s, fi, ti, o)
  \/ \E s, o \in Operands : Gridded_operator_add_assign(s, o)
  \/ \E s, o \in Operands : Spectral_operator_add_assign(s, o)
  \/ \E s, o \in Operands : FullySpectral_operator_add_assign(s, o)
  \/ \E s \in Operands, c \in ScaleFactors : Gridded_operator_mul_assign(s, c)
  \/ \E s \in Operands, c \in ScaleFactors : Spectral_operator_mul_assign(s, c)
  \/ \E s \in Operands, c \in ScaleFactors : FullySpectral_operator_mul_assign(s, c)
  \/ \E s \in Operands, v \in NormValues : Gridded_normalize(s, v)
  \/ \E s \in Operands, v \in NormValues : Spectral_normalize(s, v)
  \/ \E s \in Operands, n \in ElementCounts : Gridded_set_number_of_scattering_coeffs(s, n)
  \/ \E s \in Operands, n \in ElementCounts : Spectral_set_number_of_scattering_coeffs(s, n)
  \/ \E s \in Operands, n \in ElementCounts :
       FullySpectral_set_number_of_scattering_coeffs(s, n)

SpecCopy == InitCopy /\ [][NextCopy]_vars

(***************************************************************************)
(* normalize called again: a program of TripLength calls of normalize.     *)
(***************************************************************************)
NextNorm ==
  \/ \E s \in Operands, v \in NormValues : Gridded_normalize(s, v)
  \/ \E s \in Operands, v \in NormValues : Spectral_normalize(s, v)

SpecNorm == InitTrip /\ [][NextNorm]_vars

(***************************************************************************)
(* The loops over the outer indices of a field, one slice at a time:       *)
(* integrate_scattering_angles, normalize, to_spectral, to_gridded and     *)
(* to_fully_spectral.  loop keeps the coordinates already visited, the     *)
(* tensor that is being written and what it was before the last visit.     *)
(***************************************************************************)
\* eigen::DimensionCounter<N>{dimensions}: the coordinates the counter
\* yields, each one once; the loop may take them in any order
DimensionCounter(dimensions) == Indices(dimensions)

\* result.coeffRef(i) = integrate_angles(get_submatrix<4, 5>(*data_, i), ...)
Gridded_integrate_scattering_angles_visit(f, t, result, i) ==
  [result EXCEPT !.val[i] =
     <<integrate_angles(Gridded_submatrix(t, i), t.dims[5], t.dims[6],
                        G(f.lon_scat_), Colatitudes(G(f.lat_scat_)))>>]

\* mutant: the factor of slice i is applied to every slice of its frequency
Gridded_normalize_visit_frequency(t, integrals, value, i) ==
  [t EXCEPT !.val = [x \in DOMAIN t.val |->
     IF x[1] = i[1]
     THEN LET integral == integrals.val[i \o <<0>>][1]
          IN  IF integral # QZero THEN VScale(QDiv(value, integral), t.val[x])
              ELSE t.val[x]
     ELSE t.val[x]]]

\* for every element j: matrix *= value / integral, if the integral of
\* element 0 at i is not zero
Gridded_normalize_visit(t, integrals, value, i) ==
  [t EXCEPT !.val = [x \in DOMAIN t.val |->
     IF Lead(x, 4) = i
     THEN LET integral == integrals.val[i \o <<0>>][1]
          IN  IF integral # QZero THEN VScale(QDiv(value, integral), t.val[x])
              ELSE t.val[x]
     ELSE t.val[x]]]

\* get_subvector<4>(*data_new, i) = sht->transform(get_submatrix<4, 5>(*data_, i))
Gridded_to_spectral_visit(t, data_new, sht, i) ==
  [data_new EXCEPT !.val = [x \in DOMAIN data_new.val |->
     IF <<x[1], x[2], x[3], x[4], x[6]>> = i
     THEN Cplx(transform(sht, Gridded_submatrix(t, i))[x[5] + 1])
     ELSE data_new.val[x]]]

\* get_submatrix<4, 5>(*data_new, i) = sht_scat_->synthesize(get_subvector<4>(*data_, i))
Spectral_to_gridded_visit(t, data_new, sht, i) ==
  [data_new EXCEPT !.val = [x \in DOMAIN data_new.val |->
     IF <<x[1], x[2], x[3], x[4], x[7]>> = i
     THEN <<VReal(synthesize(sht, Subvector(t, <<i[1], i[2], i[3], i[4], 0, i[5]>>, 5,
                                            t.dims[5], VZero(2)))[<<x[5], x[6]>>])>>
     ELSE data_new.val[x]]]

\* get_subvector<2>(*data_new, i) = sht->transform_cmplx(get_submatrix<2, 3>(*data_, i))
Spectral_to_fully_spectral_visit(t, data_new, sht, i) ==
  [data_new EXCEPT !.val = [x \in DOMAIN data_new.val |->
     IF <<x[1], x[2], x[4], x[5]>> = i
     THEN transform_cmplx(sht,
            [c \in (0..(t.dims[3] - 1)) \X (0..(t.dims[4] - 1)) |->
               t.val[<<i[1], i[2], c[1], c[2], i[3], i[4]>>]])[x[3] + 1]
     ELSE data_new.val[x]]]

\* the call is entered: the program is in the loop of operation name
LoopCall(name, self, res, args) ==
  /\ loop = NoLoop
  /\ calls < MaxCalls
  /\ calls' = calls + 1
  /\ op' = [name |-> name, self |-> self, other |-> "none", res |-> res, args |-> args]
  /\ pre' = [fields |-> fields, heap |-> heap, grids |-> grids, shts |-> shts]
  /\ Returns(NoRet)
  /\ UNCHANGED <<grids, shts, fields, heap, scattering_data, quadrature>>

InLoop(name, self, res, sht, value, dimensions, integrals, data_new) ==
  [name |-> name, self |-> self, res |-> res, sht |-> sht, value |-> value,
   dimensions |-> dimensions, integrals |-> integrals, data_new |-> data_new,
   visited |-> {}, visits |-> 0, last |-> <<>>, before |-> data_new, pc |-> "loop"]

Gridded_integrate_scattering_angles_loop(s, g) ==
  /\ IsGridded(s)
  /\ LoopCall("Gridded::integrate_scattering_angles", s, "none", <<>>)
  /\ LET f == fields[s]
         dimensions == <<f.n_freqs_, f.n_temps_, f.n_lon_inc_, f.n_lat_inc_,
                         Data(s).dims[7]>>
     IN  loop' = InLoop("Gridded::integrate_scattering_angles", s, "none", "none",
                        QZero, dimensions, Free, uninitialized(dimensions, g))

Gridded_normalize_loop(s, value) ==
  /\ IsGridded(s)
  /\ LoopCall("Gridded::normalize", s, "none", <<value>>)
  /\ LET f == fields[s]
         integrals == Gridded_integrate_scattering_angles_result(f, Data(s))
         dimensions == <<f.n_freqs_, f.n_temps_, f.n_lon_inc_, f.n_lat_inc_>>
     IN  loop' = InLoop("Gridded::normalize", s, "none", "none", value, dimensions,
                        integrals, Data(s))

Gridded_to_spectral_loop(r, s, sht, g) ==
  /\ IsGridded(s)
  /\ fields[s].n_lon_scat_ = get_n_longitudes(sht)
  /\ fields[s].n_lat_scat_ = get_n_latitudes(sht)
  /\ LoopCall("Gridded::to_spectral", s, r, <<sht>>)
  /\ LET f == fields[s]
         dimensions_loop == <<f.n_freqs_, f.n_temps_, f.n_lon_inc_, f.n_lat_inc_,
                              Data(s).dims[7]>>
         dimensions_new == <<f.n_freqs_, f.n_temps_, f.n_lon_inc_, f.n_lat_inc_,
                             get_n_spectral_coeffs(sht), Data(s).dims[7]>>
     IN  loop' = InLoop("Gridded::to_spectral", s, r, sht, QZero, dimensions_loop,
                        Free, uninitialized(dimensions_new, g))

Spectral_to_gridded_loop(r, s, g) ==
  /\ IsSpectral(s)
  /\ CanAllocate
  /\ LoopCall("Spectral::to_gridded", s, r, <<>>)
  /\ LET f == fields[s]
         dimensions_loop == <<f.n_freqs_, f.n_temps_, f.n_lon_inc_, f.n_lat_inc_,
                              Data(s).dims[6]>>
         dimensions_new == <<f.n_freqs_, f.n_temps_, f.n_lon_inc_, f.n_lat_inc_,
                             get_n_longitudes(f.sht_scat_),
                             get_n_latitudes(f.sht_scat_), Data(s).dims[6]>>
     IN  loop' = InLoop("Spectral::to_gridded", s, r, f.sht_scat_, QZero,
                        dimensions_loop, Free, uninitialized(dimensions_new, g))

Spectral_to_fully_spectral_loop(r, s, sht, g) ==
  /\ IsSpectral(s)
  /\ fields[s].n_lon_inc_ = get_n_longitudes(sht)
  /\ fields[s].n_lat_inc_ = get_n_latitudes(sht)
  /\ LoopCall("Spectral::to_fully_spectral", s, r, <<sht>>)
  /\ LET f == fields[s]
         dimensions_loop == <<f.n_freqs_, f.n_temps_, Data(s).dims[5], Data(s).dims[6]>>
         dimensions_new == <<f.n_freqs_, f.n_temps_, get_n_spectral_coeffs_cmplx(sht),
                             Data(s).dims[5], Data(s).dims[6]>>
     IN  loop' = InLoop("Spectral::to_fully_spectral", s, r, sht, QZero,
                        dimensions_loop, Free, uninitialized(dimensions_new, g))

\* the body of the loop at the coordinates i
LoopBody(i) ==
  LET t == Data(loop.self)
  IN  CASE loop.name = "Gridded::integrate_scattering_angles" ->
             Gridded_integrate_scattering_angles_visit(fields[loop.self], t,
                                                       loop.data_new, i)
        [] loop.name = "Gridded::normalize" ->
             Gridded_normalize_visit(loop.data_new, loop.integrals, loop.value, i)
        [] loop.name = "Gridded::to_spectral" ->
             Gridded_to_spectral_visit(t, loop.data_new, loop.sht, i)
        [] loop.name = "Spectral::to_gridded" ->
             Spectral_to_gridded_visit(t, loop.data_new, loop.sht, i)
        [] loop.name = "Spectral::to_fully_spectral" ->
             Spectral_to_fully_spectral_visit(t, loop.data_new, loop.sht, i)

\* one pass through the body; normalize works on *data_ itself
loop_visit ==
  /\ loop.name # "none"
  /\ loop.pc = "loop"
  /\ \E i \in DimensionCounter(loop.dimensions) \ loop.visited :
       \E written \in {LoopBody(i)} :
         /\ loop' = [loop EXCEPT !.data_new = written, !.visited = @ \cup {i},
                                 !.visits = @ + 1, !.last = i,
                                 !.before = loop.data_new]
         /\ IF loop.name = "Gridded::normalize" THEN Write(loop.self, written)
            ELSE UNCHANGED <<fields, heap>>
  /\ UNCHANGED <<grids, shts, op, err, ret, pre, calls, scattering_data, quadrature>>

\* the counter is exhausted: what follows the loop
loop_leave ==
  /\ loop.name # "none"
  /\ loop.pc = "loop"
  /\ loop.visited = DimensionCounter(loop.dimensions)
  /\ loop' = [loop EXCEPT !.pc = "left"]
  /\ LET f == fields[loop.self]
     IN  CASE loop.name = "Gridded::integrate_scattering_angles" ->
                /\ Returns([kind |-> "tensor", t |-> loop.data_new])
                /\ UNCHANGED <<fields, heap, grids>>
           [] loop.name = "Gridded::normalize" ->
                /\ Returns(NoRet)
                /\ UNCHANGED <<fields, heap, grids>>
           [] loop.name = "Gridded::to_spectral" ->
                /\ Store(loop.res, ScatteringDataFieldSpectral(f.f_grid_, f.t_grid_,
                                     f.lon_inc_, f.lat_inc_, loop.sht), loop.data_new)
                /\ Returns(NoRet)
                /\ UNCHANGED grids
           [] loop.name = "Spectral::to_gridded" ->
                LET lon_scat == FreshGridIds[FirstFree]
                    lat_scat == FreshGridIds[FirstFree + 1]
                    gs == [grids EXCEPT ![lon_scat] = get_longitude_grid(f.sht_scat_),
                                        ![lat_scat] = get_latitude_grid(f.sht_scat_)]
                IN  /\ grids' = gs
                    /\ Store(loop.res,
                             ScatteringDataFieldGridded_in(gs, f.f_grid_, f.t_grid_,
                                                           f.lon_inc_, f.lat_inc_,
                                                           lon_scat, lat_scat),
                             loop.data_new)
                    /\ Returns(NoRet)
           [] loop.name = "Spectral::to_fully_spectral" ->
                /\ Store(loop.res, ScatteringDataFieldFullySpectral(f.f_grid_, f.t_grid_,
                                     loop.sht, f.sht_scat_), loop.data_new)
                /\ Returns(NoRet)
                /\ UNCHANGED grids
  /\ UNCHANGED <<shts, op, pre, calls, scattering_data, quadrature>>

\* the program: a field is constructed and one of the five operations is
\* called on it
InitLoops ==
  /\ grids = GridPool
  /\ shts = ShtPool
  /\ \E a \in Constructed :
       /\ fields = [s \in FieldIds |->
                      IF s = "a" THEN [a.f EXCEPT !.data_ = 1] ELSE NoField]
       /\ heap = [i \in TensorIds |-> IF i = 1 THEN a.t ELSE Free]
  /\ op = NoOp
  /\ err = "none"
  /\ ret = NoRet
  /\ pre = [fields |-> fields, heap |-> heap, grids |-> grids, shts |-> shts]
  /\ loop = NoLoop
  /\ scattering_data = NoScatteringData
  /\ quadrature = NoQuadrature
  /\ calls = MaxCalls - 1

NextLoops ==
  \/ \E s \in Operands, g \in Garbage(1) : Gridded_integrate_scattering_angles_loop(s, g)
  \/ \E s \in Operands, v \in NormValues : Gridded_normalize_loop(s, v)
  \/ \E r \in NewFieldIds, s \in Operands, sht \in ShtIds, g \in Garbage(2) :
       Gridded_to_spectral_loop(r, s, sht, g)
  \/ \E r \in NewFieldIds, s \in Operands, g \in Garbage(1) : Spectral_to_gridded_loop(r, s, g)
  \/ \E r \in NewFieldIds, s \in Operands, sht \in ShtIds, g \in Garbage(2) :
       Spectral_to_fully_spectral_loop(r, s, sht, g)
  \/ loop_visit
  \/ loop_leave

SpecLoops == InitLoops /\ [][NextLoops]_vars

(***************************************************************************)
(* Scalar arithmetic of GaussLegendreQuadrature<Scalar>.  A Scalar is a    *)
(* binary floating-point number m * 2^e of Digits(Scalar) significant      *)
(* bits, kept as <<m, e>> with 2^(Digits-1) <= |m| < 2^Digits, or <<0, 0>>; *)
(* every operation rounds its exact result to the nearest such number,     *)
(* ties to even.  The exponent is not bounded.  An operation takes the     *)
(* values x and y of its operands a and b.                                 *)
(***************************************************************************)
Scalars == {"float", "double", "long double"}

Digits(Scalar) ==
  CASE Scalar = "float" -> 4
    [] Scalar = "double" -> 5
    [] Scalar = "long double" -> 6

FZero == <<0, 0>>

RECURSIVE BitLength(_)
BitLength(a) == IF a = 0 THEN 0 ELSE 1 + BitLength(a \div 2)

\* the Scalar nearest to m * 2^e
FRound(Scalar, m, e) ==
  LET p == Digits(Scalar)
      a == Abs(m)
      k == BitLength(a) - p
  IN  IF m = 0 THEN FZero
      ELSE IF k <= 0 THEN <<m * 2^(-k), e + k>>
      ELSE LET q == a \div 2^k
               r == a % 2^k
               half == 2^(k - 1)
               q1 == IF r > half \/ (r = half /\ q % 2 = 1) THEN q + 1 ELSE q
               res == IF q1 = 2^p THEN <<2^(p - 1), e + k + 1>> ELSE <<q1, e + k>>
           IN  <<IF m < 0 THEN -res[1] ELSE res[1], res[2]>>

FInt(Scalar, k) == FRound(Scalar, k, 0)
FNeg(a) == CHOOSE r \in {<<-x[1], x[2]>> : x \in {a}} : TRUE
FAbs(a) == CHOOSE r \in {<<Abs(x[1]), x[2]>> : x \in {a}} : TRUE

FMul(Scalar, a, b) ==
  CHOOSE r \in {FRound(Scalar, x[1] * y[1], x[2] + y[2]) : x \in {a}, y \in {b}} : TRUE

\* a number more than Digits + 2 binary places below the other does not
\* change it
FSum(Scalar, x, y) ==
  LET p == Digits(Scalar)
      hi == IF x[2] >= y[2] THEN x ELSE y
      lo == IF x[2] >= y[2] THEN y ELSE x
      d == hi[2] - lo[2]
  IN  IF x[1] = 0 THEN y
      ELSE IF y[1] = 0 THEN x
      ELSE IF d > p + 2 THEN hi
      ELSE FRound(Scalar, hi[1] * 2^d + lo[1], lo[2])

FAdd(Scalar, a, b) == CHOOSE r \in {FSum(Scalar, x, y) : x \in {a}, y \in {b}} : TRUE

FSub(Scalar, a, b) ==
  CHOOSE r \in {FSum(Scalar, x, <<-y[1], y[2]>>) : x \in {a}, y \in {b}} : TRUE

\* the quotient to Digits + 2 places and a last bit that says whether
\* anything is left
FQuotient(Scalar, x, y) ==
  LET p == Digits(Scalar)
      num == Abs(x[1]) * 2^(p + 2)
      den == Abs(y[1])
      q == 2 * (num \div den) + (IF num % den = 0 THEN 0 ELSE 1)
  IN  FRound(Scalar, IF (x[1] < 0) = (y[1] < 0) THEN q ELSE -q, x[2] - y[2] - (p + 3))

FDiv(Scalar, a, b) ==
  CHOOSE r \in {FQuotient(Scalar, x, y) : x \in {a}, y \in {b}} : TRUE

FLess(Scalar, a, b) == FSub(Scalar, a, b)[1] < 0

(***************************************************************************)
(* GaussLegendreQuadrature<Scalar>: the constructor and the loops of       *)
(* calculate_nodes_and_weights, one action for each pass of a loop body.   *)
(***************************************************************************)
MaxDegree == 5

\* detail::Precision<Scalar>::value, 10^(-digits)
RECURSIVE Tenths(_, _)
Tenths(Scalar, digits) ==
  IF digits = 0 THEN FInt(Scalar, 1)
  ELSE FDiv(Scalar, Tenths(Scalar, digits - 1), FInt(Scalar, 10))

Precision(Scalar) ==
  CASE Scalar = "float" -> Tenths(Scalar, 6)
    [] Scalar = "double" -> Tenths(Scalar, 16)
    [] Scalar = "long double" -> Tenths(Scalar, 19)

\* M_PI as a Scalar
M_PI(Scalar) == FRound(Scalar, 3217, -10)

\* std::cos at the arguments the initial guesses of the degrees up to 8
\* pass to it
cos(Scalar, a) ==
  CASE Scalar = "float" /\ a = <<10, -5>> -> <<15, -4>>
    [] Scalar = "float" /\ a = <<11, -5>> -> <<15, -4>>
    [] Scalar = "float" /\ a = <<12, -5>> -> <<15, -4>>
    [] Scalar = "float" /\ a = <<15, -5>> -> <<14, -4>>
    [] Scalar = "float" /\ a = <<9, -4>> -> <<14, -4>>
    [] Scalar = "float" /\ a = <<11, -4>> -> <<12, -4>>
    [] Scalar = "float" /\ a = <<12, -4>> -> <<12, -4>>
    [] Scalar = "float" /\ a = <<14, -4>> -> <<10, -4>>
    [] Scalar = "float" /\ a = <<8, -3>> -> <<9, -4>>
    [] Scalar = "float" /\ a = <<9, -3>> -> <<14, -5>>
    [] Scalar = "float" /\ a = <<10, -3>> -> <<10, -5>>
    [] Scalar = "float" /\ a = <<11, -3>> -> <<12, -6>>
    [] Scalar = "float" /\ a = <<12, -3>> -> <<9, -7>>
    [] Scalar = "float" /\ a = <<13, -3>> -> <<-14, -8>>
    [] Scalar = "double" /\ a = <<18, -6>> -> <<31, -5>>
    [] Scalar = "double" /\ a = <<20, -6>> -> <<30, -5>>
    [] Scalar = "double" /\ a = <<23, -6>> -> <<30, -5>>
    [] Scalar = "double" /\ a = <<28, -6>> -> <<29, -5>>
    [] Scalar = "double" /\ a = <<17, -5>> -> <<28, -5>>
    [] Scalar = "double" /\ a = <<21, -5>> -> <<25, -5>>
    [] Scalar = "double" /\ a = <<22, -5>> -> <<25, -5>>
    [] Scalar = "double" /\ a = <<23, -5>> -> <<24, -5>>
    [] Scalar = "double" /\ a = <<27, -5>> -> <<21, -5>>
    [] Scalar = "double" /\ a = <<30, -5>> -> <<19, -5>>
    [] Scalar = "double" /\ a = <<16, -4>> -> <<17, -5>>
    [] Scalar = "double" /\ a = <<18, -4>> -> <<28, -6>>
    [] Scalar = "double" /\ a = <<20, -4>> -> <<20, -6>>
    [] Scalar = "double" /\ a = <<21, -4>> -> <<16, -6>>
    [] Scalar = "double" /\ a = <<22, -4>> -> <<25, -7>>
    [] Scalar = "double" /\ a = <<25, -4>> -> <<17, -11>>
    [] Scalar = "long double" /\ a = <<36, -7>> -> <<61, -6>>
    [] Scalar = "long double" /\ a = <<41, -7>> -> <<61, -6>>
    [] Scalar = "long double" /\ a = <<47, -7>> -> <<60, -6>>
    [] Scalar = "long double" /\ a = <<55, -7>> -> <<58, -6>>
    [] Scalar = "long double" /\ a = <<34, -6>> -> <<55, -6>>
    [] Scalar = "long double" /\ a = <<41, -6>> -> <<51, -6>>
    [] Scalar = "long double" /\ a = <<43, -6>> -> <<50, -6>>
    [] Scalar = "long double" /\ a = <<47, -6>> -> <<48, -6>>
    [] Scalar = "long double" /\ a = <<54, -6>> -> <<43, -6>>
    [] Scalar = "long double" /\ a = <<61, -6>> -> <<37, -6>>
    [] Scalar = "long double" /\ a = <<32, -5>> -> <<35, -6>>
    [] Scalar = "long double" /\ a = <<36, -5>> -> <<55, -7>>
    [] Scalar = "long double" /\ a = <<39, -5>> -> <<44, -7>>
    [] Scalar = "long double" /\ a = <<42, -5>> -> <<33, -7>>
    [] Scalar = "long double" /\ a = <<44, -5>> -> <<50, -8>>
    [] Scalar = "long double" /\ a = <<49, -5>> -> <<40, -10>>
    [] Scalar = "long double" /\ a = <<50, -5>> -> <<34, -12>>
    [] Scalar = "long double" /\ a = <<51, -5>> -> <<-47, -11>>

n_max_iter == 10
n_half_nodes(n) == (n + 1) \div 2

\* an entry of nodes_ or weights_ that nothing has been written to
Unassigned == <<0, 1>>

\* the object after the member initialisers: degree_(degree),
\* nodes_(degree), weights_(degree); the locals hold no value yet
GaussLegendreQuadrature(Scalar, degree) ==
  [Scalar |-> Scalar, degree_ |-> degree,
   nodes_ |-> [k \in 1..degree |-> Unassigned],
   weights_ |-> [k \in 1..degree |-> Unassigned],
   i |-> 1, j |-> 0, iterations |-> 0,
   x |-> Unassigned, x_old |-> Unassigned, dp_dx |-> Unassigned, dx |-> Unassigned,
   pc |-> IF 1 <= n_half_nodes(degree) THEN "guess" ELSE "done"]

\* x = -(1.0 - (n - 1) / (p_l_1 * p_l_1 * p_l_1)) * cos((p_l * (4 * i - 1)) / (4 * n + 2))
\* with p_l = M_PI and p_l_1 = 2 * n
initial_guess(Scalar, n, i) ==
  LET p_l == M_PI(Scalar)
      p_l_1 == FInt(Scalar, 2 * n)
      cube == FMul(Scalar, FMul(Scalar, p_l_1, p_l_1), p_l_1)
      factor == FSub(Scalar, FInt(Scalar, 1), FDiv(Scalar, FInt(Scalar, n - 1), cube))
      angle == FDiv(Scalar, FMul(Scalar, p_l, FInt(Scalar, 4 * i - 1)),
                    FInt(Scalar, 4 * n + 2))
  IN  FMul(Scalar, FNeg(factor), cos(Scalar, angle))

\* the Legendre recurrence from degree l up to degree n: <<p_l, p_l_1>>
RECURSIVE legendre(_, _, _, _, _, _)
legendre(Scalar, n, x, l, p_l, p_l_1) ==
  IF l > n THEN <<p_l, p_l_1>>
  ELSE CHOOSE r \in
         {legendre(Scalar, n, x, l + 1,
            FDiv(Scalar,
                 FSub(Scalar,
                      FMul(Scalar, FMul(Scalar, FInt(Scalar, 2 * l - 1), x), p[1]),
                      FMul(Scalar, FInt(Scalar, l - 1), p[2])),
                 FInt(Scalar, l)),
            p[1]) : p \in {<<p_l, p_l_1>>}} : TRUE

\* dp_dx of the node x and of the polynomials p_l, p_l_1 at it
derivative(Scalar, n, x, p_l, p_l_1) ==
  FDiv(Scalar,
       FMul(Scalar, FSub(Scalar, FInt(Scalar, 1), x), FAdd(Scalar, FInt(Scalar, 1), x)),
       FMul(Scalar, FInt(Scalar, n), FSub(Scalar, p_l_1, FMul(Scalar, x, p_l))))

\* one pass of the body of the loop over j, from the node x
newton_step(Scalar, n, x) ==
  CHOOSE r \in
    {[x |-> x_new, x_old |-> x, dp_dx |-> dp_dx,
      dx |-> FAbs(FSub(Scalar, x_new, x)),
      threshold |-> FMul(Scalar, FRound(Scalar, 1, -1), FAdd(Scalar, x_new, x))] :
       <<dp_dx, x_new>> \in
         {<<d, FSub(Scalar, x, FMul(Scalar, p[1], d))>> :
            <<p, d>> \in {<<q, derivative(Scalar, n, x, q[1], q[2])>> :
                            q \in {legendre(Scalar, n, x, 2, x, FInt(Scalar, 1))}}}} : TRUE

\* weights_[i - 1] = 2.0 * dp_dx * dp_dx / ((1.0 - x) * (1.0 + x))
node_weight(Scalar, dp_dx, x) ==
  FDiv(Scalar,
       FMul(Scalar, FMul(Scalar, FInt(Scalar, 2), dp_dx), dp_dx),
       FMul(Scalar, FSub(Scalar, FInt(Scalar, 1), x), FAdd(Scalar, FInt(Scalar, 1), x)))

\* mutant: the node is not negated on the other side
assign_node_same_sign(q) ==
  CHOOSE r \in
    {[q EXCEPT !.nodes_ = [[q.nodes_ EXCEPT ![q.i] = q.x] EXCEPT ![q.degree_ - q.i + 1] = q.x],
               !.weights_ = [[q.weights_ EXCEPT ![q.i] = w] EXCEPT ![q.degree_ - q.i + 1] = w]] :
       w \in {node_weight(q.Scalar, q.dp_dx, q.x)}} : TRUE

\* nodes_[i - 1] = x; weights_[i - 1] = ..; nodes_[n - i] = -x;
\* weights_[n - i] = weights_[i - 1], the entries counted from 1 here
assign_node(q) ==
  CHOOSE r \in
    {[q EXCEPT !.nodes_ = [[q.nodes_ EXCEPT ![q.i] = q.x] EXCEPT ![q.degree_ - q.i + 1] = FNeg(q.x)],
               !.weights_ = [[q.weights_ EXCEPT ![q.i] = w] EXCEPT ![q.degree_ - q.i + 1] = w]] :
       w \in {node_weight(q.Scalar, q.dp_dx, q.x)}} : TRUE

QuadratureFrame ==
  UNCHANGED <<grids, shts, heap, fields, op, err, ret, pre, calls, scattering_data,
              loop>>

\* the head of the loop over i up to the loop over j
calculate_nodes_and_weights_guess ==
  /\ quadrature.pc = "guess"
  /\ quadrature' = [quadrature EXCEPT
        !.x = initial_guess(quadrature.Scalar, quadrature.degree_, quadrature.i),
        !.j = 0, !.iterations = 0, !.pc = "newton"]
  /\ QuadratureFrame

\* one pass of the loop over j: the Newton step, the break, ++j
calculate_nodes_and_weights_iterate ==
  /\ quadrature.pc = "newton"
  /\ quadrature.j < n_max_iter
  /\ \E step \in {newton_step(quadrature.Scalar, quadrature.degree_, quadrature.x)} :
       \E leave \in {FLess(quadrature.Scalar, step.dx, step.threshold)} :
         quadrature' = [quadrature EXCEPT
           !.x = step.x, !.x_old = step.x_old, !.dp_dx = step.dp_dx, !.dx = step.dx,
           !.iterations = @ + 1,
           !.j = IF leave THEN @ ELSE @ + 1,
           !.pc = IF leave \/ quadrature.j + 1 >= n_max_iter THEN "assign" ELSE "newton"]
  /\ QuadratureFrame

\* the rest of the body of the loop over i, and ++i
calculate_nodes_and_weights_assign ==
  /\ quadrature.pc = "assign"
  /\ quadrature' = [assign_node(quadrature) EXCEPT
        !.i = @ + 1,
        !.pc = IF quadrature.i + 1 <= n_half_nodes(quadrature.degree_) THEN "guess"
               ELSE "done"]
  /\ QuadratureFrame

InitQuadrature ==
  /\ grids = GridPool
  /\ shts = ShtPool
  /\ fields = [s \in FieldIds |-> NoField]
  /\ heap = [i \in TensorIds |-> Free]
  /\ op = NoOp
  /\ err = "none"
  /\ ret = NoRet
  /\ pre = [fields |-> fields, heap |-> heap, grids |-> grids, shts |-> shts]
  /\ loop = NoLoop
  /\ calls = 0
  /\ scattering_data = NoScatteringData
  /\ \E Scalar \in Scalars, degree \in 0..MaxDegree :
       quadrature = GaussLegendreQuadrature(Scalar, degree)

NextQuadrature ==
  \/ calculate_nodes_and_weights_guess
  \/ calculate_nodes_and_weights_iterate
  \/ calculate_nodes_and_weights_assign

SpecQuadrature == InitQuadrature /\ [][NextQuadrature]_vars

(***************************************************************************)
(* ScatteringData: the constructors of the three specialisations.  A       *)
(* vector or tensor is one of two values; a member that is initialised     *)
(* from itself is read before it holds a value and ends up with any value. *)
(***************************************************************************)
DataValues == {"u", "v"}
Indeterminate == DataValues \cup {"indeterminate"}

ScatteringDataGridded(azimuth_grid_incoming, zenith_grid_incoming, azimuth_grid_scattering, zenith_grid_scattering, phase_matrix, extinction_matrix, absorption_vector, backscattering_coeff, forwardscattering_coeff) ==
  [format |-> "Gridded",
   azimuth_grid_incoming_ |-> azimuth_grid_incoming,
   zenith_grid_incoming_ |-> zenith_grid_incoming,
   azimuth_grid_scattering_ |-> azimuth_grid_scattering,
   zenith_grid_scattering_ |-> zenith_grid_scattering,
   phase_matrix_ |-> phase_matrix,
   extinction_matrix_ |-> extinction_matrix,
   absorption_vector_ |-> absorption_vector,
   backscattering_coeff_ |-> backscattering_coeff,
   forwardscattering_coeff_ |-> forwardscattering_coeff]

\* phase_matrix_(phase_matrix_), extinction_matrix_(extinction_matrix_) and
\* absorption_vector_(absorption_vector_): the members before their
\* initialisation are phase_matrix_, extinction_matrix_, absorption_vector_
ScatteringDataSpectral(azimuth_grid_incoming, zenith_grid_incoming, phase_matrix, extinction_matrix, absorption_vector, backscattering_coeff, forwardscattering_coeff, phase_matrix_, extinction_matrix_, absorption_vector_) ==
  [format |-> "Spectral",
   azimuth_grid_incoming_ |-> azimuth_grid_incoming,
   zenith_grid_incoming_ |-> zenith_grid_incoming,
   phase_matrix_ |-> phase_matrix_,
   extinction_matrix_ |-> extinction_matrix_,
   absorption_vector_ |-> absorption_vector_,
   backscattering_coeff_ |-> backscattering_coeff,
   forwardscattering_coeff_ |-> forwardscattering_coeff]

ScatteringDataFullySpectral(phase_matrix, extinction_matrix, absorption_vector, backscattering_coeff, forwardscattering_coeff) ==
  [format |-> "FullySpectral",
   phase_matrix_ |-> phase_matrix,
   extinction_matrix_ |-> extinction_matrix,
   absorption_vector_ |-> absorption_vector,
   backscattering_coeff_ |-> backscattering_coeff,
   forwardscattering_coeff_ |-> forwardscattering_coeff]

\* a constructor call with the named arguments args
ScatteringData_construct(name, args) ==
  /\ calls < MaxCalls
  /\ calls' = calls + 1
  /\ op' = [name |-> name, self |-> "none", other |-> "none", res |-> "none",
            args |-> args]
  /\ pre' = [fields |-> fields, heap |-> heap, grids |-> grids, shts |-> shts]
  /\ Returns(NoRet)
  /\ UNCHANGED <<grids, shts, heap, fields, quadrature, loop>>

ScatteringDataGridded_construct ==
  \E azimuth_grid_incoming, zenith_grid_incoming, azimuth_grid_scattering,
     zenith_grid_scattering, phase_matrix, extinction_matrix, absorption_vector,
     backscattering_coeff, forwardscattering_coeff \in DataValues :
    /\ ScatteringData_construct("ScatteringData<Gridded>::ScatteringData",
          [azimuth_grid_incoming |-> azimuth_grid_incoming,
           zenith_grid_incoming |-> zenith_grid_incoming,
           azimuth_grid_scattering |-> azimuth_grid_scattering,
           zenith_grid_scattering |-> zenith_grid_scattering,
           phase_matrix |-> phase_matrix,
           extinction_matrix |-> extinction_matrix,
           absorption_vector |-> absorption_vector,
           backscattering_coeff |-> backscattering_coeff,
           forwardscattering_coeff |-> forwardscattering_coeff])
    /\ scattering_data' =
          ScatteringDataGridded(azimuth_grid_incoming, zenith_grid_incoming,
                                azimuth_grid_scattering, zenith_grid_scattering,
                                phase_matrix, extinction_matrix, absorption_vector,
                                backscattering_coeff, forwardscattering_coeff)

ScatteringDataSpectral_construct ==
  \E azimuth_grid_incoming, zenith_grid_incoming, phase_matrix, extinction_matrix,
     absorption_vector, backscattering_coeff, forwardscattering_coeff \in DataValues :
    \E phase_matrix_, extinction_matrix_, absorption_vector_ \in Indeterminate :
      /\ ScatteringData_construct("ScatteringData<Spectral>::ScatteringData",
            [azimuth_grid_incoming |-> azimuth_grid_incoming,
             zenith_grid_incoming |-> zenith_grid_incoming,
             phase_matrix |-> phase_matrix,
             extinction_matrix |-> extinction_matrix,
             absorption_vector |-> absorption_vector,
             backscattering_coeff |-> backscattering_coeff,
             forwardscattering_coeff |-> forwardscattering_coeff])
      /\ scattering_data' =
            ScatteringDataSpectral(azimuth_grid_incoming, zenith_grid_incoming,
                                   phase_matrix, extinction_matrix, absorption_vector,
                                   backscattering_coeff, forwardscattering_coeff,
                                   phase_matrix_, extinction_matrix_, absorption_vector_)

ScatteringDataFullySpectral_construct ==
  \E phase_matrix, extinction_matrix, absorption_vector, backscattering_coeff,
     forwardscattering_coeff \in DataValues :
    /\ ScatteringData_construct("ScatteringData<FullySpectral>::ScatteringData",
          [phase_matrix |-> phase_matrix,
           extinction_matrix |-> extinction_matrix,
           absorption_vector |-> absorption_vector,
           backscattering_coeff |-> backscattering_coeff,
           forwardscattering_coeff |-> forwardscattering_coeff])
    /\ scattering_data' =
          ScatteringDataFullySpectral(phase_matrix, extinction_matrix, absorption_vector,
                                      backscattering_coeff, forwardscattering_coeff)

NextData ==
  \/ ScatteringDataGridded_construct
  \/ ScatteringDataSpectral_construct
  \/ ScatteringDataFullySpectral_construct

(***************************************************************************)
(* determine_type on its own: every combination of grid sizes.             *)
(***************************************************************************)
determine_type_call(n_lon_inc, n_lat_inc, n_lon_scat, n_lat_scat) ==
  /\ op' = [name |-> "determine_type", self |-> "none", other |-> "none",
            res |-> "none",
            args |-> <<n_lon_inc, n_lat_inc, n_lon_scat, n_lat_scat>>]
  /\ Returns([kind |-> "type",
              v |-> determine_type(n_lon_inc, n_lat_inc, n_lon_scat, n_lat_scat)])
  /\ UNCHANGED <<grids, shts, heap, fields, pre, calls, scattering_data, quadrature,
                 loop>>

InitType ==
  /\ grids = GridPool
  /\ shts = ShtPool
  /\ fields = [s \in FieldIds |-> NoField]
  /\ heap = [i \in TensorIds |-> Free]
  /\ op = NoOp
  /\ err = "none"
  /\ ret = NoRet
  /\ pre = [fields |-> fields, heap |-> heap, grids |-> grids, shts |-> shts]
  /\ loop = NoLoop
  /\ scattering_data = NoScatteringData
  /\ quadrature = NoQuadrature
  /\ calls = 0

NextType ==
  \E n_lon_inc, n_lat_inc, n_lon_scat, n_lat_scat \in 1..MaxGridSize :
    determine_type_call(n_lon_inc, n_lat_inc, n_lon_scat, n_lat_scat)

SpecType == InitType /\ [][NextType]_vars

SpecData == InitType /\ [][NextData]_vars

(***************************************************************************)
(* Properties.  A call is described by op (its name, receiver, operand,    *)
(* result and arguments), err, ret, and pre, the objects before it.        *)
(***************************************************************************)
SetDataOps == {"Gridded::set_data", "Spectral::set_data", "FullySpectral::set_data"}
AddAssignOps == {"Gridded::operator+=", "Spectral::operator+=", "FullySpectral::operator+="}
MulAssignOps == {"Gridded::operator*=", "Spectral::operator*=", "FullySpectral::operator*="}
NormalizeOps == {"Gridded::normalize", "Spectral::normalize"}
SetNumberOps ==
  {"Gridded::set_number_of_scattering_coeffs", "Spectral::set_number_of_scattering_coeffs",
   "FullySpectral::set_number_of_scattering_coeffs"}
IntegrateOps ==
  {"Gridded::integrate_scattering_angles", "Spectral::integrate_scattering_angles"}
MutationOps == SetDataOps \cup AddAssignOps \cup MulAssignOps \cup NormalizeOps
                 \cup SetNumberOps
InterpolateFrequencyOps ==
  {"Gridded::interpolate_frequency", "Spectral::interpolate_frequency",
   "FullySpectral::interpolate_frequency"}
InterpolateTemperatureOps ==
  {"Gridded::interpolate_temperature", "Spectral::interpolate_temperature",
   "FullySpectral::interpolate_temperature"}
InterpolateAnglesOps == {"Gridded::interpolate_angles", "Spectral::interpolate_angles"}
RegridOps == {"Gridded::regrid", "Spectral::regrid", "FullySpectral::regrid"}

\* the data of field s before the call
PreData(s) == pre.heap[pre.fields[s].data_]

\* the pointers of a field to its grids and transforms
Pointers ==
  {"f_grid_", "t_grid_", "lon_inc_", "lat_inc_", "lon_scat_", "lat_scat_",
   "sht_inc_", "sht_scat_"}

\* the grids a field is regridded along, by axis
AxisGrids(f) ==
  CASE f.fmt = "Gridded" ->
         <<f.f_grid_, f.t_grid_, f.lon_inc_, f.lat_inc_, f.lon_scat_, f.lat_scat_>>
    [] f.fmt = "Spectral" -> <<f.f_grid_, f.t_grid_, f.lon_inc_, f.lat_inc_>>
    [] f.fmt = "FullySpectral" -> <<f.f_grid_, f.t_grid_>>

\* some coordinate of the grid tgt lies outside the range of the grid src
OutOfRange(src, tgt) ==
  \E j \in 1..Len(tgt) : tgt[j] < src[1] \/ tgt[j] > src[Len(src)]

AnyOutOfRange(src_ids, tgt_ids) ==
  \E k \in 1..Len(src_ids) : OutOfRange(grids[src_ids[k]], grids[tgt_ids[k]])

\* C1 as the specification states it: determine_type returns Random
\* exactly when n_lon_inc, n_lat_inc and n_lon_scat are all 1,
\* AzimuthallyRandom exactly when n_lon_inc is 1 and n_lon_scat is greater
\* than 1, and General in every other case.
C1_determine_type_as_stated ==
  op.name = "determine_type" =>
    LET n_lon_inc == op.args[1]
        n_lat_inc == op.args[2]
        n_lon_scat == op.args[3]
    IN  /\ ret.v = "Random" <=> (n_lon_inc = 1 /\ n_lat_inc = 1 /\ n_lon_scat = 1)
        /\ ret.v = "AzimuthallyRandom" <=> (n_lon_inc = 1 /\ n_lon_scat > 1)
        /\ ret.v = "General" <=>
             ~(n_lon_inc = 1 /\ n_lat_inc = 1 /\ n_lon_scat = 1)
               /\ ~(n_lon_inc = 1 /\ n_lon_scat > 1)

\* C1, amended: determine_type returns Random exactly when n_lon_inc,
\* n_lat_inc and n_lon_scat are all 1, AzimuthallyRandom exactly when
\* n_lon_inc is 1 and n_lat_inc or n_lon_scat is greater than 1 (so also
\* for n_lon_inc = 1, n_lat_inc > 1, n_lon_scat = 1), and General exactly
\* when n_lon_inc is greater than 1.
C1_determine_type ==
  op.name = "determine_type" =>
    LET n_lon_inc == op.args[1]
        n_lat_inc == op.args[2]
        n_lon_scat == op.args[3]
    IN  /\ ret.v \in ParticleType
        /\ ret.v = "Random" <=> (n_lon_inc = 1 /\ n_lat_inc = 1 /\ n_lon_scat = 1)
        /\ ret.v = "AzimuthallyRandom" <=>
             (n_lon_inc = 1 /\ (n_lat_inc > 1 \/ n_lon_scat > 1))
        /\ ret.v = "General" <=> n_lon_inc > 1

\* the case the statement of C1 names: sizes (1, 2, 1, 1)
C1_witness ==
  /\ op.name = "determine_type"
  /\ op.args = <<1, 2, 1, 1>>
  /\ ret.v = "AzimuthallyRandom"

\* C2: determine_type classifies the grid sizes (1,1,1,5) as Random,
\* (1,3,4,5) as AzimuthallyRandom and (2,3,4,5) as General, and the result
\* is the same for every size of the scattering-zenith grid.
C2_determine_type_examples ==
  op.name = "determine_type" =>
    /\ op.args = <<1, 1, 1, 5>> => ret.v = "Random"
    /\ op.args = <<1, 3, 4, 5>> => ret.v = "AzimuthallyRandom"
    /\ op.args = <<2, 3, 4, 5>> => ret.v = "General"
    /\ \A n_lat_scat \in 1..MaxGridSize :
         determine_type(op.args[1], op.args[2], op.args[3], n_lat_scat) = ret.v

C2_witness ==
  /\ op.name = "determine_type"
  /\ op.args = <<1, 3, 4, 5>>
  /\ ret.v = "AzimuthallyRandom"

\* C3: the particle type of every field is determine_type of the sizes of
\* the grids the field holds, and set_data, operator+=, operator*=,
\* normalize, set_number_of_scattering_coeffs and
\* integrate_scattering_angles leave the particle type of their receiver
\* as it was.
C3_particle_type ==
  /\ \A s \in FieldIds :
       Live(s) =>
         LET n == SizesHeld(fields[s])
         IN  fields[s].type_ = determine_type(n[1], n[2], n[3], n[4])
  /\ op.name \in MutationOps \cup IntegrateOps =>
       fields[op.self].type_ = pre.fields[op.self].type_

\* a resize has replaced the data of an azimuthally random field
C3_witness ==
  /\ op.name = "Gridded::set_number_of_scattering_coeffs"
  /\ err = "none"
  /\ Data(op.self) # PreData(op.self)
  /\ fields[op.self].type_ = "AzimuthallyRandom"
  /\ fields[op.self].n_lon_scat_ = 1

DataConstructors ==
  {"Gridded::Gridded", "Spectral::Spectral", "FullySpectral::FullySpectral"}

C5_grids_kept ==
  /\ grids = pre.grids
  /\ shts = pre.shts
  /\ \A k \in Pointers : fields[op.self][k] = pre.fields[op.self][k]

C6_set_data_as_stated ==
  op.name = "Gridded::set_data" /\ err = "none" =>
    LET regridder == RegularRegridder(<<2, 3, 4, 5>>, AngularGrids(pre.fields[op.other]),
                                      AngularGrids(pre.fields[op.self]), FALSE)
        regridded == regrid(regridder, PreData(op.other))
    IN  /\ tensor_index(Data(op.self), op.args) = tensor_index(regridded, <<0, 0>>)
        /\ \A c \in (0..(Data(op.self).dims[1] - 1)) \X (0..(Data(op.self).dims[2] - 1)) :
             c # op.args => tensor_index(Data(op.self), c) = tensor_index(PreData(op.self), c)
        /\ Data(op.other) = PreData(op.other)

\* C7 as the specification states it: set_data and operator+= of a
\* Gridded field with an operand whose element axis differs from the
\* receiver's end in an error and leave the receiver's data as they were.
C7_mismatch_as_stated ==
  /\ op.name \in {"Gridded::set_data", "Gridded::operator+="}
  /\ PreData(op.other).dims[7] # PreData(op.self).dims[7]
  => /\ err # "none"
     /\ Data(op.self) = PreData(op.self)

\* C8: interpolate_temperature with a target outside the temperature grid
\* ends in an error when extrapolate is false and returns a field on the
\* target grid when it is true; interpolate_frequency, interpolate_angles,
\* regrid, set_data and operator+= end in an error whenever a target
\* coordinate lies outside the source grid.
C8_extrapolation ==
  LET self == pre.fields[op.self]
  IN  /\ op.name \in InterpolateTemperatureOps
           /\ OutOfRange(grids[self.t_grid_], grids[op.args[1]]) =>
           IF op.args[2]
           THEN /\ err = "none"
                /\ Live(op.res)
                /\ fields[op.res].t_grid_ = op.args[1]
           ELSE /\ err = "out_of_range"
                /\ fields = pre.fields
                /\ heap = pre.heap
      /\ op.name \in InterpolateFrequencyOps
           /\ OutOfRange(grids[self.f_grid_], grids[op.args[1]]) =>
           err = "out_of_range"
      /\ op.name \in InterpolateAnglesOps
           /\ AnyOutOfRange(SubSeq(AxisGrids(self), 3, Len(AxisGrids(self))), op.args) =>
           err = "out_of_range"
      /\ op.name \in RegridOps /\ AnyOutOfRange(AxisGrids(self), op.args[1]) =>
           err = "out_of_range"
      /\ op.name \in {"Gridded::set_data", "Spectral::set_data"}
           /\ AnyOutOfRange(SubSeq(AxisGrids(pre.fields[op.other]), 3, Len(AxisGrids(self))),
                            SubSeq(AxisGrids(self), 3, Len(AxisGrids(self)))) =>
           err = "out_of_range"
      /\ op.name \in AddAssignOps
           /\ AnyOutOfRange(AxisGrids(pre.fields[op.other]), AxisGrids(self)) =>
           err = "out_of_range"

\* a temperature outside the grid has been extrapolated to
C8_witness ==
  /\ op.name = "Gridded::interpolate_temperature"
  /\ op.args[2]
  /\ OutOfRange(grids[pre.fields[op.self].t_grid_], grids[op.args[1]])
  /\ err = "none"
  /\ Live(op.res)

\* C9: interpolate_frequency and interpolate_temperature of each variant
\* return a field with a tensor of its own whose grid on the interpolated
\* axis is the given grid, whose other grids and transforms are the
\* objects the source holds and whose other axis lengths are the source's;
\* the source, its grids and its data are as they were.
C9_interpolation ==
  op.name \in InterpolateFrequencyOps \cup InterpolateTemperatureOps /\ err = "none" =>
    LET axis == IF op.name \in InterpolateFrequencyOps THEN 1 ELSE 2
        given == IF axis = 1 THEN "f_grid_" ELSE "t_grid_"
        source == pre.fields[op.self]
        result == fields[op.res]
    IN  /\ result.fmt = source.fmt
        /\ result[given] = op.args[1]
        /\ \A k \in Pointers \ {given} : result[k] = source[k]
        /\ Len(Data(op.res).dims) = Len(PreData(op.self).dims)
        /\ Data(op.res).dims[axis] = Len(grids[op.args[1]])
        /\ \A k \in 1..Len(PreData(op.self).dims) :
             k # axis => Data(op.res).dims[k] = PreData(op.self).dims[k]
        /\ grids = pre.grids
        /\ shts = pre.shts
        /\ op.res # op.self =>
             /\ fields[op.self] = source
             /\ Data(op.self) = PreData(op.self)
             /\ result.data_ # source.data_

\* a Spectral field has been interpolated to a temperature grid of another size
C9_witness ==
  /\ op.name = "Spectral::interpolate_temperature"
  /\ err = "none"
  /\ op.res # op.self
  /\ fields[op.res].t_grid_ # fields[op.self].t_grid_
  /\ Data(op.res).dims[2] # Data(op.self).dims[2]

\* the integrals integrate_scattering_angles() returns for the field f
\* with data t
Integrals(f, t) ==
  IF f.fmt = "Gridded" THEN Gridded_integrate_scattering_angles_result(f, t)
  ELSE Spectral_integrate_scattering_angles_result(t)

\* C10: after normalize(V) on a Gridded or Spectral field,
\* integrate_scattering_angles() yields V for the first element of every
\* (frequency, temperature, incoming-angle) slice whose first-element
\* integral was not zero before, and zero for every other slice.
C10_normalize ==
  op.name \in NormalizeOps =>
    LET before == Integrals(pre.fields[op.self], PreData(op.self))
        after == Integrals(fields[op.self], Data(op.self))
    IN  \A i \in DOMAIN before.val :
          i[5] = 0 =>
            IF before.val[i][1] # QZero THEN after.val[i][1] = op.args[1]
            ELSE after.val[i][1] = QZero

\* a field with a slice of integral zero and a slice of another integral
\* has been normalised
C10_witness ==
  /\ op.name \in NormalizeOps
  /\ LET before == Integrals(pre.fields[op.self], PreData(op.self))
     IN  /\ \E i \in DOMAIN before.val : i[5] = 0 /\ before.val[i][1] = QZero
         /\ \E i \in DOMAIN before.val :
              i[5] = 0 /\ before.val[i][1] \notin {QZero, op.args[1]}
  /\ Data(op.self) # PreData(op.self)

\* C11: normalize(value) of a Gridded or Spectral field ends without an
\* error; in every (frequency, temperature, incoming-angle) slice whose
\* first-element scattering-angle integral was exactly zero the data of
\* every element are as they were, and in every other slice the data of
\* every element are the old data times value / integral.
C11_normalize_zero_slices ==
  op.name \in NormalizeOps =>
    LET before == Integrals(pre.fields[op.self], PreData(op.self))
    IN  /\ err = "none"
        /\ Data(op.self).dims = PreData(op.self).dims
        /\ \A i \in DOMAIN PreData(op.self).val :
             LET integral == before.val[<<i[1], i[2], i[3], i[4], 0>>][1]
             IN  IF integral = QZero
                 THEN Data(op.self).val[i] = PreData(op.self).val[i]
                 ELSE Data(op.self).val[i] =
                        VScale(QDiv(op.args[1], integral), PreData(op.self).val[i])

\* a Gridded field has kept a slice of integral zero with data other than
\* zero, and has had another slice scaled
C11_witness ==
  /\ op.name = "Gridded::normalize"
  /\ err = "none"
  /\ LET before == Integrals(pre.fields[op.self], PreData(op.self))
     IN  /\ \E i \in DOMAIN PreData(op.self).val :
              /\ before.val[<<i[1], i[2], i[3], i[4], 0>>][1] = QZero
              /\ PreData(op.self).val[i] # VZero(1)
              /\ Data(op.self).val[i] = PreData(op.self).val[i]
         /\ \E i \in DOMAIN PreData(op.self).val :
              /\ before.val[<<i[1], i[2], i[3], i[4], 0>>][1] # QZero
              /\ Data(op.self).val[i] # PreData(op.self).val[i]

\* C12: set_number_of_scattering_coeffs(m) of each variant on a field with
\* n elements leaves the element axis with length m and every other axis
\* length as it was; the elements below min(n, m) at every outer index
\* are as they were, and the elements from n to m - 1 are zero.
C12_set_number ==
  op.name \in SetNumberOps =>
    LET old == PreData(op.self)
        new == Data(op.self)
        k == Len(old.dims)
    IN  /\ err = "none"
        /\ new.dims = [old.dims EXCEPT ![k] = op.args[1]]
        /\ DOMAIN new.val = Indices(new.dims)
        /\ \A i \in DOMAIN new.val :
             IF i[k] < old.dims[k] THEN new.val[i] = old.val[i]
             ELSE new.val[i] = VZero(Len(new.val[i]))

\* a Spectral field with one element and data other than zero has grown
\* to two elements
C12_witness ==
  /\ op.name = "Spectral::set_number_of_scattering_coeffs"
  /\ err = "none"
  /\ PreData(op.self).dims[6] = 1
  /\ Data(op.self).dims[6] = 2
  /\ \E i \in DOMAIN PreData(op.self).val : PreData(op.self).val[i] # VZero(2)
  /\ \A i \in DOMAIN Data(op.self).val : i[6] = 1 => Data(op.self).val[i] = VZero(2)

\* the constructors that allocate the tensor themselves
EmptyConstructors ==
  {"Gridded::Gridded(empty)", "Spectral::Spectral(empty)",
   "FullySpectral::FullySpectral(empty)"}

\* C13 as the specification states it: a field made by the empty
\* constructor has a tensor whose axis lengths are the sizes of the grids
\* (or the coefficient counts of the transforms) followed by n_elements,
\* and every entry of the tensor is zero.
C13_empty_as_stated ==
  op.name \in EmptyConstructors =>
    /\ Data(op.res).dims = ShapeHeld(fields[op.res]) \o <<op.args[Len(op.args)]>>
    /\ \A i \in DOMAIN Data(op.res).val :
         Data(op.res).val[i] = VZero(Len(Data(op.res).val[i]))

\* the grids a call regrids to, by axis of the receiver; the receiver's
\* own grid where the call leaves the axis alone
TargetGrids(source) ==
  LET own == AxisGrids(source)
      n == Len(own)
  IN  CASE op.name \in RegridOps -> op.args[1]
        [] op.name \in InterpolateFrequencyOps -> [own EXCEPT ![1] = op.args[1]]
        [] op.name \in InterpolateTemperatureOps -> [own EXCEPT ![2] = op.args[1]]
        [] op.name \in InterpolateAnglesOps ->
             [k \in 1..n |-> IF k <= 2 THEN own[k] ELSE op.args[k - 2]]

\* C14: regrid of each variant called with grids that have the
\* coordinates of the receiver's own grids, and interpolate_frequency,
\* interpolate_temperature and interpolate_angles called with the
\* coordinates of the receiver's own grid on that axis, end without an
\* error and return a field whose data equal the receiver's data at
\* every index.
C14_regrid_identity ==
  op.name \in RegridOps \cup InterpolateFrequencyOps \cup InterpolateTemperatureOps
                \cup InterpolateAnglesOps =>
    LET source == pre.fields[op.self]
        own == AxisGrids(source)
        target == TargetGrids(source)
    IN  (\A k \in 1..Len(own) : pre.grids[target[k]] = pre.grids[own[k]]) =>
          /\ err = "none"
          /\ Data(op.res) = PreData(op.self)

\* a Gridded field whose data vary along a frequency grid of two nodes
\* has been regridded to its own six grids into another field
C14_witness ==
  /\ op.name = "Gridded::regrid"
  /\ err = "none"
  /\ op.res # op.self
  /\ op.args[1] = AxisGrids(pre.fields[op.self])
  /\ PreData(op.self).dims[1] = 2
  /\ \E i \in DOMAIN PreData(op.self).val :
       i[1] = 0 /\ PreData(op.self).val[i] # PreData(op.self).val[[i EXCEPT ![1] = 1]]
  /\ Data(op.res) = PreData(op.self)
  /\ fields[op.res].data_ # fields[op.self].data_

\* the tensor t with every coefficient of index 1 or more and every
\* imaginary part replaced by v
Masked(t, v) ==
  [t EXCEPT !.val = [i \in DOMAIN t.val |->
     IF i[5] = 0 THEN <<t.val[i][1], v>> ELSE <<v, v>>]]

\* C20: integrate_scattering_angles() of a Spectral field returns a
\* tensor of shape (n_freqs, n_temps, n_lon_inc, n_lat_inc, n_elements)
\* whose entry at (f, t, a, b, e) is the real part of the coefficient of
\* index 0 at (f, t, a, b, e) times sqrt(4 pi); the coefficients of
\* index 1 or more and the imaginary parts have no part in it, and the
\* field and its data are as they were.
C20_spectral_integral ==
  op.name = "Spectral::integrate_scattering_angles" =>
    LET f == pre.fields[op.self]
        t == PreData(op.self)
        shape == <<Size(f.f_grid_), Size(f.t_grid_), Size(f.lon_inc_), Size(f.lat_inc_),
                   t.dims[6]>>
    IN  /\ err = "none"
        /\ ret.kind = "tensor"
        /\ ret.t.dims = shape
        /\ DOMAIN ret.t.val = Indices(shape)
        /\ \A i \in Indices(shape) :
             ret.t.val[i] = <<QMul(t.val[<<i[1], i[2], i[3], i[4], 0, i[5]>>][1], Sqrt4Pi)>>
        /\ \A v \in {QZero, Q(5)} :
             Spectral_integrate_scattering_angles_result(Masked(t, v)) = ret.t
        /\ fields = pre.fields
        /\ heap = pre.heap

\* a field with two coefficients per slice, of which the second and the
\* imaginary parts are not zero, has been integrated to a tensor that is
\* not zero
C20_witness ==
  /\ op.name = "Spectral::integrate_scattering_angles"
  /\ err = "none"
  /\ PreData(op.self).dims[5] = 2
  /\ \E i \in DOMAIN PreData(op.self).val :
       i[5] = 1 /\ PreData(op.self).val[i][1] # QZero /\ PreData(op.self).val[i][2] # QZero
  /\ \E i \in DOMAIN ret.t.val : ret.t.val[i] # VZero(1)

\* the integral over the scattering azimuth on [0, 2 pi] of the Gridded
\* data t on the azimuth grid lon_scat: the tensor of the integrals of the
\* piecewise linear function through the data, with an azimuth axis of
\* length 1
AzimuthIntegral(t, lon_scat) ==
  LET d == [t.dims EXCEPT ![5] = 1]
  IN  [dims |-> d,
       val |-> [i \in Indices(d) |->
         LET vals == [m \in 1..Len(lon_scat) |-> t.val[[i EXCEPT ![5] = m - 1]][1]]
         IN  <<QDiv(IntegralOver(Twice(lon_scat), vals, 0, 2 * FullCircle[1]), Q(2))>>]]

ConstantInAzimuth(t) ==
  \A i \in DOMAIN t.val : t.val[i] = t.val[[i EXCEPT ![5] = 0]]

\* C17: downsample_scattering_angles(new_lon, new_lat) of a Gridded field
\* whose data are constant along the scattering azimuth returns a field
\* on the grids new_lon and new_lat whose other four grids are the
\* receiver's and whose integral over the scattering azimuth on [0, 2 pi]
\* is the receiver's (taken to the new zenith grid), whatever the new
\* azimuth grid; the receiver is as it was.
C17_downsample ==
  /\ op.name = "Gridded::downsample_scattering_angles"
  /\ err = "none"
  /\ ConstantInAzimuth(PreData(op.self))
  => LET source == pre.fields[op.self]
         result == fields[op.res]
         lon_scat_new == op.args[1]
         lat_scat_new == op.args[2]
     IN  /\ result.fmt = "Gridded"
         /\ \A k \in {"f_grid_", "t_grid_", "lon_inc_", "lat_inc_"} : result[k] = source[k]
         /\ result.lon_scat_ = lon_scat_new
         /\ result.lat_scat_ = lat_scat_new
         /\ Data(op.res).dims =
              [PreData(op.self).dims EXCEPT ![5] = Size(lon_scat_new),
                                            ![6] = Size(lat_scat_new)]
         /\ AzimuthIntegral(Data(op.res), G(lon_scat_new))
              = regrid_axis(AzimuthIntegral(PreData(op.self), G(source.lon_scat_)), 5,
                            G(source.lat_scat_), G(lat_scat_new))
         /\ grids = pre.grids
         /\ op.res # op.self =>
              fields[op.self] = source /\ Data(op.self) = PreData(op.self)

\* a field on two scattering azimuths, with data other than zero, has
\* been downsampled to a single azimuth
C17_witness ==
  /\ op.name = "Gridded::downsample_scattering_angles"
  /\ err = "none"
  /\ op.res # op.self
  /\ ConstantInAzimuth(PreData(op.self))
  /\ PreData(op.self).dims[5] = 2
  /\ Data(op.res).dims[5] = 1
  /\ \E i \in DOMAIN Data(op.res).val : Data(op.res).val[i] # VZero(1)

(***************************************************************************)
(* Adding Spectral fields of different truncations.                        *)
(***************************************************************************)
\* the operand of += and of set_data on the grids of the receiver
AddOperand ==
  LET f == pre.fields[op.self]
      other == pre.fields[op.other]
  IN  IF op.name = "Spectral::operator+="
      THEN regrid(Spectral_regridder(other, <<f.f_grid_, f.t_grid_, f.lon_inc_,
                                              f.lat_inc_>>), PreData(op.other))
      ELSE regrid(RegularRegridder(<<2, 3>>, <<G(other.lon_inc_), G(other.lat_inc_)>>,
                                   <<G(f.lon_inc_), G(f.lat_inc_)>>, DefaultExtrapolate),
                  PreData(op.other))

\* where the operand keeps coefficient j of the entry that is added to
\* entry i of the receiver, and the entries of the receiver a call works on
OperandIndex(i, j) ==
  IF op.name = "Spectral::set_data" THEN <<0, 0, i[3], i[4], j, i[6]>>
  ELSE [i EXCEPT ![5] = j]

Touched(i) ==
  op.name = "Spectral::operator+=" \/ (i[1] = op.args[1] /\ i[2] = op.args[2])

\* a += b or a.set_data(.., b) has run, on transforms of different
\* truncations and with an element of b for every element of a
AddedAcrossTruncations ==
  /\ op.name \in {"Spectral::operator+=", "Spectral::set_data"}
  /\ err = "none"
  /\ Coeffs(pre.fields[op.self].sht_scat_) # Coeffs(pre.fields[op.other].sht_scat_)
  /\ PreData(op.other).dims[6] >= PreData(op.self).dims[6]

\* the coefficients the receiver holds are the sums, or its own
ReceiverCoeffsSummed ==
  LET sht_l == pre.fields[op.self].sht_scat_
      sht_r == pre.fields[op.other].sht_scat_
  IN  \A i \in {x \in DOMAIN Data(op.self).val : Touched(x)} :
        LET j == CoeffIndex(sht_r, Coeffs(sht_l)[i[5] + 1])
        IN  Data(op.self).val[i] =
              IF j = 0 THEN PreData(op.self).val[i]
              ELSE VAdd(PreData(op.self).val[i], AddOperand.val[OperandIndex(i, j - 1)])

\* the coefficients only the operand holds are in the receiver afterwards
OperandCoeffsCopied ==
  LET sht_l == pre.fields[op.self].sht_scat_
      sht_r == pre.fields[op.other].sht_scat_
  IN  \A j \in 1..Len(Coeffs(sht_r)) :
        \/ \E k \in 1..Len(Coeffs(sht_l)) : Coeffs(sht_l)[k] = Coeffs(sht_r)[j]
        \/ /\ Data(op.self).dims[5] > PreData(op.self).dims[5]
           /\ \E k \in 0..(Data(op.self).dims[5] - 1) :
                \A i \in {x \in DOMAIN Data(op.self).val : Touched(x) /\ x[5] = k} :
                  Data(op.self).val[i] = AddOperand.val[OperandIndex(i, j - 1)]

Within(x, y) == \A k \in 1..Len(Coeffs(x)) : CoeffIndex(y, Coeffs(x)[k]) # 0

\* the fields x of which the receiver of the call is the extension to a
\* higher truncation, the call bringing it back to the truncation of x
ExtendedFrom ==
  {x \in FieldIds :
     /\ pre.fields[x].fmt = "Spectral"
     /\ Conforms(pre.fields[x], PreData(x))
     /\ Within(pre.fields[x].sht_scat_, pre.fields[op.self].sht_scat_)
     /\ Coeffs(pre.fields[x].sht_scat_) # Coeffs(pre.fields[op.self].sht_scat_)
     /\ PreData(op.self) = Spectral_to_spectral_data(pre.fields[x], PreData(x),
                                                     pre.fields[op.self].sht_scat_)
     /\ Coeffs(op.args[1]) = Coeffs(pre.fields[x].sht_scat_)}

\* C19: to_spectral(sht_other) returns a field on sht_other whose coefficient
\* axis has the coefficient count of sht_other; a coefficient of both
\* truncations is the source's, every other one is zero; the source is
\* unchanged; the own truncation gives equal data; and the extension of a
\* field to a higher truncation, brought back, is the data of that field.
C19_to_spectral ==
  op.name = "Spectral::to_spectral" =>
    LET sht_old == pre.fields[op.self].sht_scat_
        sht_new == op.args[1]
    IN  /\ err = "none"
        /\ fields[op.res].fmt = "Spectral"
        /\ fields[op.res].sht_scat_ = sht_new
        /\ Data(op.res).dims =
             [PreData(op.self).dims EXCEPT ![5] = get_n_spectral_coeffs(sht_new)]
        /\ \A i \in DOMAIN Data(op.res).val :
             LET j == CoeffIndex(sht_old, Coeffs(sht_new)[i[5] + 1])
             IN  Data(op.res).val[i] =
                   IF j = 0 THEN VZero(2)
                   ELSE PreData(op.self).val[[i EXCEPT ![5] = j - 1]]
        /\ op.res # op.self =>
             fields[op.self] = pre.fields[op.self] /\ Data(op.self) = PreData(op.self)
        /\ Coeffs(sht_new) = Coeffs(sht_old) => Data(op.res) = PreData(op.self)
        /\ \A x \in ExtendedFrom : Data(op.res) = PreData(x)

\* the second call brings the extension of a field back: the two
\* truncations keep a common coefficient at different places and the
\* data are not zero
C19_witness ==
  /\ op.name = "Spectral::to_spectral"
  /\ calls = MaxCalls
  /\ \E x \in ExtendedFrom :
       /\ x # op.self
       /\ \E k \in 1..Len(Coeffs(pre.fields[x].sht_scat_)) :
            CoeffIndex(pre.fields[op.self].sht_scat_,
                       Coeffs(pre.fields[x].sht_scat_)[k]) # k
       /\ \E i \in DOMAIN PreData(x).val : PreData(x).val[i] # VZero(2)
       /\ Data(op.res) # PreData(op.self)

(***************************************************************************)
(* Round trips through the conversions.                                    *)
(***************************************************************************)
\* the transform std::make_shared<sht::SHT> makes of the anti-aliasing
\* parameters of a grid of n_lon by n_lat
DefaultSht(n_lon, n_lat) ==
  [l_max |-> get_params(n_lon, n_lat)[1], m_max |-> get_params(n_lon, n_lat)[2],
   n_lon |-> n_lon, n_lat |-> n_lat, made |-> TRUE]

\* the Gridded fields x of which the receiver of the call is x.to_spectral()
ToSpectralOf ==
  {x \in FieldIds :
     /\ pre.fields[x].fmt = "Gridded"
     /\ Conforms(pre.fields[x], PreData(x))
     /\ pre.fields[op.self].fmt = "Spectral"
     /\ \A g \in {"f_grid_", "t_grid_", "lon_inc_", "lat_inc_"} :
          pre.fields[op.self][g] = pre.fields[x][g]
     /\ pre.shts[pre.fields[op.self].sht_scat_] =
          DefaultSht(pre.fields[x].n_lon_scat_, pre.fields[x].n_lat_scat_)
     /\ PreData(op.self) =
          Gridded_to_spectral_data(PreData(x), pre.fields[op.self].sht_scat_)}

ToFullySpectralOf ==
  {x \in FieldIds :
     /\ pre.fields[x].fmt = "Spectral"
     /\ Conforms(pre.fields[x], PreData(x))
     /\ pre.fields[op.self].fmt = "FullySpectral"
     /\ \A g \in {"f_grid_", "t_grid_", "sht_scat_"} :
          pre.fields[op.self][g] = pre.fields[x][g]
     /\ pre.shts[pre.fields[op.self].sht_inc_] =
          DefaultSht(pre.fields[x].n_lon_inc_, pre.fields[x].n_lat_inc_)
     /\ PreData(op.self) =
          Spectral_to_fully_spectral_data(PreData(x), pre.fields[op.self].sht_inc_)}

C23_set_data_as_stated ==
  (/\ op.name = "Spectral::set_data"
   /\ err = "none"
   /\ PreData(op.other).dims[6] >= PreData(op.self).dims[6]) =>
    LET sht_l == pre.fields[op.self].sht_scat_
        sht_r == pre.fields[op.other].sht_scat_
    IN  /\ Data(op.self).dims = PreData(op.self).dims
        /\ \A i \in DOMAIN Data(op.self).val :
             LET j == CoeffIndex(sht_r, Coeffs(sht_l)[i[5] + 1])
             IN  Data(op.self).val[i] =
                   IF ~Touched(i) THEN PreData(op.self).val[i]
                   ELSE IF j = 0 THEN VZero(2)
                   ELSE AddOperand.val[OperandIndex(i, j - 1)]

(***************************************************************************)
(* FullySpectral::set_data.                                                *)
(***************************************************************************)
\* C26, as stated: set_data(f, t, other) on a FullySpectral field with
\* n_elements elements combines the coefficient matrix of other at (0, 0)
\* into the matrix at (f, t) for every element 0..n_elements-1, once each
\* and for no other index, and leaves every other (f', t') as it was.
C26_set_data_as_stated ==
  (/\ op.name = "FullySpectral::set_data"
   /\ PreData(op.other).dims[5] >= PreData(op.self).dims[5]) =>
    /\ err = "none"
    /\ Data(op.self) =
         FullySpectral_set_data_result(PreData(op.self), op.args, PreData(op.other),
                                       pre.fields[op.self], pre.fields[op.other],
                                       PreData(op.self).dims[5], VZero(2))
    /\ \A j \in TensorIds : j # fields[op.self].data_ => heap[j] = pre.heap[j]

(***************************************************************************)
(* The value operator+= and operator*= return.                             *)
(***************************************************************************)
\* C24, as stated: a mutation made through the value operator+= or
\* operator*= returned is observed through the receiver; after
\* set_number_of_scattering_coeffs(n) through it the receiver has n
\* elements, and after *= c through it the data of the receiver are scaled.
C24_returned_reference_as_stated ==
  /\ op.name = "returned.set_number_of_scattering_coeffs" =>
       Data(op.self).dims[Len(Data(op.self).dims)] = op.args[1]
  /\ op.name = "returned.operator*=" =>
       Data(op.self) = scale(op.args[1], PreData(op.self))

(***************************************************************************)
(* copy(), operator+ and operator*.                                        *)
(***************************************************************************)
CopyOps ==
  {"Gridded::copy", "Spectral::copy", "FullySpectral::copy",
   "Gridded::operator+", "Spectral::operator+", "FullySpectral::operator+",
   "Gridded::operator*", "Spectral::operator*", "FullySpectral::operator*"}

\* the call made a field of its own tensor on the grids and transforms of
\* its receiver and left its operands as they were
OwnTensorMade ==
  (op.name \in CopyOps /\ err = "none") =>
    /\ \A g \in Pointers : fields[op.res][g] = pre.fields[op.self][g]
    /\ \A x \in {op.self, op.other} \ {"none", op.res} :
         /\ fields[x] = pre.fields[x]
         /\ Data(x) = PreData(x)
         /\ fields[op.res].data_ # fields[x].data_

\* a change of one field is not seen in a field of another tensor
OtherTensorsKept ==
  op.name \in MutationOps =>
    \A x \in FieldIds \ {op.self} :
      (pre.fields[x].fmt # "none" /\ pre.fields[x].data_ # pre.fields[op.self].data_)
        => fields[x] = pre.fields[x] /\ Data(x) = PreData(x)

\* C25, as stated: copy(), operator+ and operator* return a field with its
\* own tensor and the grids and transforms of the receiver and leave the
\* operands unchanged; afterwards no mutation of the result changes the
\* data of an operand and no mutation of an operand those of the result.
C25_deep_copy_as_stated == OwnTensorMade /\ OtherTensorsKept

(***************************************************************************)
(* Failing calls.                                                          *)
(***************************************************************************)
\* C27: when set_data or operator+= fails while regridding its operand, the
\* fields and every tensor, that of the receiver among them, are what
\* they were before the call.
C27_failed_regrid ==
  (op.name \in SetDataOps \cup AddAssignOps /\ err = "out_of_range") =>
    /\ fields = pre.fields
    /\ heap = pre.heap
    /\ Data(op.self) = PreData(op.self)

\* a += b has failed on a target coordinate outside the grids of b, with
\* data in a that are not zero
C27_witness ==
  /\ op.name \in AddAssignOps
  /\ err = "out_of_range"
  /\ op.self # op.other
  /\ \E k \in 1..Len(AxisGrids(pre.fields[op.self])) :
       \E j \in 1..Size(AxisGrids(pre.fields[op.self])[k]) :
         LET x == G(AxisGrids(pre.fields[op.self])[k])[j]
             g == G(AxisGrids(pre.fields[op.other])[k])
         IN  x < g[1] \/ x > g[Len(g)]
  /\ \E i \in DOMAIN PreData(op.self).val :
       PreData(op.self).val[i] # VZero(Len(PreData(op.self).val[i]))

(***************************************************************************)
(* normalize, called once and again.                                       *)
(***************************************************************************)
\* the data normalize(value) makes of the data of field s as they are now
NormalizedAgain(s, value) ==
  IF fields[s].fmt = "Gridded" THEN Gridded_normalize_result(fields[s], Data(s), value)
  ELSE Spectral_normalize_result(Data(s), value)

\* the factors value / integral of the slices of the receiver before the
\* call, 1 where the integral is zero
SliceFactor(i) ==
  LET integral == Integrals(pre.fields[op.self], PreData(op.self))
                    .val[<<i[1], i[2], i[3], i[4], 0>>][1]
  IN  IF integral = QZero THEN Q(1) ELSE QDiv(op.args[1], integral)

\* the receiver was normalised to the value of the call before the call
NormalizedBefore ==
  \A i \in DOMAIN Integrals(pre.fields[op.self], PreData(op.self)).val :
    i[5] = 0 =>
      Integrals(pre.fields[op.self], PreData(op.self)).val[i][1] \in {QZero, op.args[1]}

\* C29: normalize(V) of a Gridded or Spectral field multiplies every element
\* of a (frequency, temperature, incoming-angle) slice by the one factor
\* V / (integral of element 0) of the slice (a slice of integral zero is
\* left as it is); normalize(V) of the result changes nothing, and neither
\* does normalize(V) of a field that was normalised to V before.
C29_normalize_idempotent ==
  op.name \in NormalizeOps =>
    /\ \A i \in DOMAIN Data(op.self).val :
         Data(op.self).val[i] = VScale(SliceFactor(i), PreData(op.self).val[i])
    /\ NormalizedAgain(op.self, op.args[1]) = Data(op.self)
    /\ NormalizedBefore => Data(op.self) = PreData(op.self)

\* the second call of a run normalises a field with two elements of
\* different data that the first call has normalised to the same value
C29_witness ==
  /\ op.name \in NormalizeOps
  /\ calls = MaxCalls
  /\ NormalizedBefore
  /\ \E i \in DOMAIN Integrals(pre.fields[op.self], PreData(op.self)).val :
       /\ i[5] = 0
       /\ Integrals(pre.fields[op.self], PreData(op.self)).val[i][1] = op.args[1]
  /\ \E i \in DOMAIN PreData(op.self).val :
       /\ i[Len(i)] = 0
       /\ PreData(op.self).val[i] # PreData(op.self).val[[i EXCEPT ![Len(i)] = 1]]
  /\ Data(op.self) = PreData(op.self)

(***************************************************************************)
(* The constructors of ScatteringData.                                     *)
(***************************************************************************)
\* the member an argument of a constructor initialises, by its name
Member(argument) == argument \o "_"

\* C30, as stated: after the construction of a ScatteringData object of any
\* of the three specialisations, every member holds the value of the
\* constructor argument of the same name.
C30_members_as_stated ==
  scattering_data.format # "none" =>
    \A argument \in DOMAIN op.args :
      scattering_data[Member(argument)] = op.args[argument]

(***************************************************************************)
(* GaussLegendreQuadrature.                                                *)
(***************************************************************************)
\* the last Newton step changed the node by less than the precision of the
\* scalar type
BelowPrecision ==
  FLess(quadrature.Scalar, quadrature.dx, Precision(quadrature.Scalar))

\* C21, as stated: the Newton iteration of a node stops as soon as the
\* change of the node between two iterations is below the precision of the
\* scalar type: it goes on to another pass only after a change that is not
\* below it, and it ends before the tenth pass only after one that is.
C21_precision_as_stated ==
  /\ (quadrature.pc = "newton" /\ quadrature.iterations >= 1) => ~BelowPrecision
  /\ (quadrature.pc = "assign" /\ quadrature.iterations < n_max_iter) => BelowPrecision

\* the constructor has returned
QuadratureDone == quadrature.pc = "done"

\* the entry on the other side of entry k, the entries counted from 1
Mirror(k) == quadrature.degree_ + 1 - k

\* the loops are bounded and the constructor never stops before its end
QuadratureTerminates ==
  /\ quadrature.iterations <= n_max_iter
  /\ quadrature.j <= n_max_iter
  /\ quadrature.i <= n_half_nodes(quadrature.degree_) + 1
  /\ QuadratureDone \/ ENABLED NextQuadrature

EntriesAssigned ==
  \A k \in 1..quadrature.degree_ :
    quadrature.nodes_[k] # Unassigned /\ quadrature.weights_[k] # Unassigned

WeightsSymmetric ==
  \A k \in 1..quadrature.degree_ :
    quadrature.weights_[Mirror(k)] = quadrature.weights_[k]

WrittenSlice(x) ==
  CASE loop.name = "Gridded::integrate_scattering_angles" -> x
    [] loop.name = "Gridded::normalize" -> Lead(x, 4)
    [] loop.name = "Gridded::to_spectral" -> <<x[1], x[2], x[3], x[4], x[6]>>
    [] loop.name = "Spectral::to_gridded" -> <<x[1], x[2], x[3], x[4], x[7]>>
    [] loop.name = "Spectral::to_fully_spectral" -> <<x[1], x[2], x[4], x[5]>>

ReadSlice(x) ==
  CASE loop.name = "Gridded::integrate_scattering_angles" ->
         <<x[1], x[2], x[3], x[4], x[7]>>
    [] loop.name = "Gridded::normalize" -> Lead(x, 4)
    [] loop.name = "Gridded::to_spectral" -> <<x[1], x[2], x[3], x[4], x[7]>>
    [] loop.name = "Spectral::to_gridded" -> <<x[1], x[2], x[3], x[4], x[6]>>
    [] loop.name = "Spectral::to_fully_spectral" -> <<x[1], x[2], x[5], x[6]>>

\* what the operation of the loop makes of the data t of the receiver
LoopResult(t) ==
  CASE loop.name = "Gridded::integrate_scattering_angles" ->
         Gridded_integrate_scattering_angles_result(pre.fields[loop.self], t)
    [] loop.name = "Gridded::normalize" ->
         Gridded_normalize_result(pre.fields[loop.self], t, loop.value)
    [] loop.name = "Gridded::to_spectral" -> Gridded_to_spectral_data(t, loop.sht)
    [] loop.name = "Spectral::to_gridded" -> Spectral_to_gridded_data(t, loop.sht)
    [] loop.name = "Spectral::to_fully_spectral" ->
         Spectral_to_fully_spectral_data(t, loop.sht)

\* t with every entry outside slice i replaced by another value
OnlySlice(t, i) ==
  [t EXCEPT !.val = [x \in DOMAIN t.val |->
     IF ReadSlice(x) = i THEN t.val[x] ELSE [k \in 1..Len(t.val[x]) |-> Q(7)]]]

\* the last visit wrote its own slice, of nothing but the slice of the
\* data the call was entered with, and left every other entry as it was
LastVisitOwnSlice ==
  \E own \in {LoopResult(OnlySlice(PreData(loop.self), loop.last))} :
    \A x \in DOMAIN loop.data_new.val :
      loop.data_new.val[x] =
        IF WrittenSlice(x) = loop.last THEN own.val[x] ELSE loop.before.val[x]

\* C22: in integrate_scattering_angles, normalize, to_spectral, to_gridded
\* and to_fully_spectral every slice is visited, and visited once; a visit
\* writes its own slice only, of what its own slice of the data held when
\* the call was entered (normalize with the integrals of these data, the
\* other four leaving the data as they are); and when every slice is
\* visited the result is that of the operation on the whole tensor,
\* whichever order the slices were taken in.
C22_slices ==
  loop.name # "none" =>
    /\ loop.visited \subseteq DimensionCounter(loop.dimensions)
    /\ loop.visits = Cardinality(loop.visited)
    /\ loop.pc = "left" => loop.visited = DimensionCounter(loop.dimensions)
    /\ loop.visited # {} => LastVisitOwnSlice
    /\ IF loop.name = "Gridded::normalize"
       THEN /\ Data(loop.self) = loop.data_new
            /\ loop.integrals =
                 Gridded_integrate_scattering_angles_result(pre.fields[loop.self],
                                                            PreData(loop.self))
       ELSE Data(loop.self) = PreData(loop.self)
    /\ loop.visited = DimensionCounter(loop.dimensions) =>
         loop.data_new = LoopResult(PreData(loop.self))
    /\ loop.pc = "left" =>
         CASE loop.name = "Gridded::integrate_scattering_angles" ->
                ret = [kind |-> "tensor", t |-> LoopResult(PreData(loop.self))]
           [] loop.name = "Gridded::normalize" ->
                Data(loop.self) = LoopResult(PreData(loop.self))
           [] OTHER -> Data(loop.res) = LoopResult(PreData(loop.self))

\* normalize has left its loop, the slice of the lowest coordinates was
\* the last of four to be visited, two slices were scaled by different
\* factors and the data are not what they were
C22_witness ==
  /\ loop.name = "Gridded::normalize"
  /\ loop.pc = "left"
  /\ Cardinality(loop.visited) >= 4
  /\ loop.last = <<0, 0, 0, 0>>
  /\ \E i, j \in loop.visited :
       /\ loop.integrals.val[i \o <<0>>] # loop.integrals.val[j \o <<0>>]
       /\ loop.integrals.val[i \o <<0>>] # <<QZero>>
       /\ loop.integrals.val[j \o <<0>>] # <<QZero>>
  /\ Data(loop.self) # PreData(loop.self)
  /\ loop.before # loop.data_new

====
